---- MODULE Spec2Model ----
(***************************************************************************)
(* Malad Utsav 2025 automation scripts.                                    *)
(*                                                                         *)
(* Every script is a standalone, single-threaded pipeline.  One behaviour  *)
(* of this module is one script being run (variable `script`); the state   *)
(* of the scripts that are not running stays at its initial value.         *)
(*                                                                         *)
(* Text is modelled as a sequence of Unicode code points, so that          *)
(* str.lower(), str.strip(), html escaping and string comparison are       *)
(* computed the way Python computes them.  A pandas cell is either missing *)
(* (NaN) or holds a string.                                                *)
(***************************************************************************)
EXTENDS Integers, Sequences, FiniteSets, TLC

VARIABLES
    script,         \* which script this run executes
    exit_code,      \* process exit status; -1 while the process is running
    exit_via,       \* "none" | "sys.exit" | "return" | "traceback"
    log,            \* messages printed so far by the running process
    \* ---- generate_parentlist_html.py
    pl_pc,          \* position in main()
    pl_args,        \* parsed command line and environment
    pl_in,          \* the DataFrame as loaded (CSV content)
    pl_df,          \* the DataFrame main() currently holds
    pl_html,        \* <tr> rows of the written main HTML
    pl_files,       \* output files written in this run
    pl_requests,    \* HTTP GET requests issued: the sheet id and gid of each URL
    \* ---- process_photos.py
    ph_pc,          \* position in main()
    ph_side,        \* side of the merge conflict the file was resolved to
    ph_files,       \* os.listdir(INPUT_FOLDER), in listing order
    ph_i,           \* index of the next file of the loop
    ph_written,     \* images saved to Photos/Processed in this run
    ph_ret,         \* value process_image returned for file k (or "skipped")
    success_count,  \* main(): success_count
    error_count,    \* main(): error_count
    \* ---- student_ppt.py
    fs_clock,       \* the wall clock, in seconds
    fs_pptx,        \* presentations on disk: path -> the runs that saved there
    ppt_env,        \* student_ppt_csv.csv and Final_Processed_photos on disk
    ppt_run,        \* number of this run of the script
    ppt_pc,         \* position in main() / create_presentation()
    ppt_df,         \* the DataFrame read_student_data returned
    ppt_i,          \* index of the next row of the slide loop
    ppt_slides,     \* prs.slides: the row each slide was added for
    ppt_success_count, \* create_presentation(): success_count
    ppt_result,     \* what create_presentation returned ("none" before)
    fs_pdf,         \* PDF files on disk
    pdf_tried,      \* converters save_ppt_as_pdf ran in this run, with outcome
    pdf_ret,        \* what save_ppt_as_pdf returned ("not called" before)
    \* ---- generate_certificates.py
    ce_pc,          \* position in main()
    ce_env,         \* student_ppt_csv.csv on disk
    ce_i,           \* index of the next row of the loop
    ce_files,       \* certificate files written
    \* ---- generate_invite_list.py
    inv_pc,         \* position in main()
    inv_env,        \* inviteList.csv on disk
    inv_df,         \* the sorted DataFrame
    inv_i,          \* index of the next row of the loop
    inv_html,       \* table rows appended to html
    inv_written,    \* whether the HTML file has been written
    \* ---- download_sheets.py
    ds_pc,          \* position in main()
    ds_i,           \* index of the next sheet / folder of the loop
    ds_gets,        \* requests.get calls made: sheet and outcome, in order
    ds_files,       \* sheets whose CSV file has been written
    sheets_success, \* main(): sheets_success
    ds_gdown,       \* gdown.download_folder calls made
    ds_calls,       \* download_sheet / download_folder calls of main, in order,
                    \* with the value each returned
    folders_success,\* main(): folders_success
    \* ---- generate_searchable_html.py and the page it writes
    sh_pc,          \* position in the script
    sh_in,          \* the CSV file given with --csv
    sh_html,        \* the table of the written page: header cells and rows
    dom_display,    \* row k of the table body is visible
    dom_cells,      \* textContent of each cell of the table body
    dom_notice,     \* the 'No matching results' notice is visible
    dom_filter,     \* value of the search input at the last input event
    dom_threw,      \* the last searchTable call ended by an exception
    dom_n,          \* number of input events so far
    \* ---- process_photos.add_stationery_border, called on its own
    bd_pc,          \* "idle" | "call" | "done"
    bd_in,          \* size of the image passed, and the pixel looked at
    bd_out,         \* that pixel of the image returned
    \* ---- process_photos.process_image: the scaling and paste steps on their own
    pa_pc,          \* "idle" | "face" | "centred" | "paste" | "pasted"
    pa_in,          \* the image and face box, or the resized image and offset
    pa_out,         \* what the step computed
    \* ---- student_ppt.read_student_data on its own
    rd_pc,          \* "idle" | "call" | "returned"
    rd_in,          \* the CSV file: its bytes, its header, a read error if any
    rd_out,         \* the encodings tried, in order, and what was returned
    \* ---- a script started again on unchanged inputs
    run,            \* number of this run of the script
    first_run       \* what the first run left: output files, files handled

commonVars == <<script, exit_code, exit_via, log>>
plVars == <<pl_pc, pl_args, pl_in, pl_df, pl_html, pl_files, pl_requests>>
phVars == <<ph_pc, ph_side, ph_files, ph_i, ph_written, ph_ret, success_count,
            error_count>>

pptVars == <<fs_clock, fs_pptx, ppt_env, ppt_run, ppt_pc, ppt_df, ppt_i,
             ppt_slides, ppt_success_count, ppt_result, fs_pdf, pdf_tried,
             pdf_ret>>
ceVars == <<ce_pc, ce_env, ce_i, ce_files>>
invVars == <<inv_pc, inv_env, inv_df, inv_i, inv_html, inv_written>>
dsVars == <<ds_pc, ds_i, ds_gets, ds_files, sheets_success, ds_gdown, ds_calls,
            folders_success>>
shVars == <<sh_pc, sh_in, sh_html, dom_display, dom_cells, dom_notice, dom_filter, dom_threw,
            dom_n>>

bdVars == <<bd_pc, bd_in, bd_out>>
paVars == <<pa_pc, pa_in, pa_out>>
rdVars == <<rd_pc, rd_in, rd_out>>
rerunVars == <<run, first_run>>

vars == <<commonVars, plVars, phVars, pptVars, ceVars, invVars, dsVars, shVars,
          bdVars, paVars, rdVars, rerunVars>>

\* the state of every script other than the named one, and the run counter
notPL == <<phVars, pptVars, ceVars, invVars, dsVars, shVars, bdVars,
          paVars, rdVars, rerunVars>>
notPH == <<plVars, pptVars, ceVars, invVars, dsVars, shVars, bdVars,
          paVars, rdVars, rerunVars>>
notPPT == <<plVars, phVars, ceVars, invVars, dsVars, shVars, bdVars,
          paVars, rdVars, rerunVars>>
notCE == <<plVars, phVars, pptVars, invVars, dsVars, shVars, bdVars,
          paVars, rdVars, rerunVars>>
notINV == <<plVars, phVars, pptVars, ceVars, dsVars, shVars, bdVars,
          paVars, rdVars, rerunVars>>
notDS == <<plVars, phVars, pptVars, ceVars, invVars, shVars, bdVars,
          paVars, rdVars, rerunVars>>
notSH == <<plVars, phVars, pptVars, ceVars, invVars, dsVars, bdVars,
          paVars, rdVars, rerunVars>>

----------------------------------------------------------------------------
(* Bounds of the model *)

\* rows of the table given to normalize_and_sort
MaxRows == 3
\* rows of the CSV in the runs of generate_parentlist_html.main
MaxLoadRows == 1
\* entries of the Photos folder
MaxFiles == 3
\* rows of student_ppt_csv.csv
MaxStudents == 3
\* runs of a script, one after the other
MaxRuns == 2
\* seconds the wall clock can advance
MaxClock == 2
\* rows of inviteList.csv
MaxInvites == 2
\* rows of the CSV given to generate_searchable_html
MaxSearchRows == 2
\* input events on the search box of the page
MaxSearches == 2
\* columns and rows of the tables given to the column matching
MaxHeaders == 3
MaxColRows == 1

----------------------------------------------------------------------------
(* Python / pandas text primitives *)

NaN == [na |-> TRUE, s |-> <<>>]
Str(x) == [na |-> FALSE, s |-> x]

\* str.lower() on one code point: A-Z map to a-z
LowerChar(c) == IF c >= 65 /\ c <= 90 THEN c + 32 ELSE c

\* str.lower()
lower(x) == [i \in 1..Len(x) |-> LowerChar(x[i])]

\* str(i) for an integer i >= 0
RECURSIVE int_text(_)
int_text(i) == IF i < 10 THEN <<48 + i>> ELSE int_text(i \div 10) \o <<48 + (i % 10)>>

\* str(float(i)): "1.0"
float_text(i) == int_text(i) \o <<46, 48>>

\* number of positions of seq that hold x
Count(seq, x) == Cardinality({j \in 1..Len(seq) : seq[j] = x})

\* whitespace as str.strip() sees it (space, \t, \n, \r, \v, \f)
IsSpace(c) == c \in {32, 9, 10, 11, 12, 13}

RECURSIVE lstrip(_)
lstrip(x) == IF x # <<>> /\ IsSpace(Head(x)) THEN lstrip(Tail(x)) ELSE x

RECURSIVE rstrip(_)
rstrip(x) ==
    IF x # <<>> /\ IsSpace(x[Len(x)]) THEN rstrip(SubSeq(x, 1, Len(x) - 1)) ELSE x

\* str.strip()
strip(x) == rstrip(lstrip(x))

\* Python's str < str: lexicographic on code points
RECURSIVE StrLT(_, _)
StrLT(x, y) ==
    IF y = <<>> THEN FALSE
    ELSE IF x = <<>> THEN TRUE
    ELSE IF Head(x) < Head(y) THEN TRUE
    ELSE IF Head(x) > Head(y) THEN FALSE
    ELSE StrLT(Tail(x), Tail(y))

\* Series.astype(str) / str(value) on one cell: a missing value becomes 'nan'
astype_str(cell) == IF cell.na THEN <<110, 97, 110>> ELSE cell.s

\* one character of esc(): & < > are replaced by entities
EscChar(c) ==
    IF c = 38 THEN <<38, 97, 109, 112, 59>>
    ELSE IF c = 60 THEN <<38, 108, 116, 59>>
    ELSE IF c = 62 THEN <<38, 103, 116, 59>>
    ELSE <<c>>

RECURSIVE EscStr(_)
EscStr(x) == IF x = <<>> THEN <<>> ELSE EscChar(Head(x)) \o EscStr(Tail(x))

\* esc(s): str(s) with & < > escaped
esc(cell) == EscStr(astype_str(cell))

----------------------------------------------------------------------------
(* generate_parentlist_html.py : normalize_and_sort *)

parent_candidates ==
    << <<112,97,114,101,110,116,32,110,97,109,101>>,       \* "parent name"
       <<112,97,114,101,110,116>>,                         \* "parent"
       <<112,97,114,101,110,116,95,110,97,109,101>> >>     \* "parent_name"

student_candidates ==
    << <<115,116,117,100,101,110,116,32,110,97,109,101>>,  \* "student name"
       <<115,116,117,100,101,110,116>>,                    \* "student"
       <<115,116,117,100,101,110,116,95,110,97,109,101>> >>\* "student_name"

time_candidates ==
    << <<116,105,109,101,115,116,97,109,112>>,             \* "timestamp"
       <<115,117,98,109,105,116,116,101,100,32,111,110>>,  \* "submitted on"
       <<115,117,98,109,105,116,116,101,100,111,110>>,     \* "submittedon"
       <<115,117,98,109,105,116,116,101,100,95,111,110>> >>\* "submitted_on"

\* cols = {c.lower().strip(): c for c in df.columns}: the key of column i
ColKey(columns, i) == strip(lower(columns[i]))

\* cols[key]: a later column with the same key replaces an earlier one
ColsGet(columns, key) ==
    LET hits == {i \in 1..Len(columns) : ColKey(columns, i) = key}
    IN  IF hits = {} THEN 0 ELSE CHOOSE i \in hits : \A j \in hits : j <= i

\* a find_col that takes the first header matching any candidate
find_col_first_header(columns, possible) ==
    LET hits == {i \in 1..Len(columns) :
                    \E k \in 1..Len(possible) : ColKey(columns, i) = lower(possible[k])}
    IN  IF hits = {} THEN 0 ELSE CHOOSE i \in hits : \A j \in hits : i <= j

\* find_col(possible): the column of the first candidate that is a key; 0 is None
find_col(columns, possible) ==
    LET found == {k \in 1..Len(possible) : ColsGet(columns, lower(possible[k])) # 0}
    IN  IF found = {} THEN 0
        ELSE ColsGet(columns,
                     lower(possible[CHOOSE k \in found : \A j \in found : k <= j]))

\* df[[parent_col, student_col, time_col]] with a missing role filled with ''
Canonical(df) ==
    LET pc == find_col(df.columns, parent_candidates)
        sc == find_col(df.columns, student_candidates)
        tc == find_col(df.columns, time_candidates)
    IN  [i \in 1..Len(df.rows) |->
            [p |-> IF pc = 0 THEN Str(<<>>) ELSE df.rows[i][pc],
             s |-> IF sc = 0 THEN Str(<<>>) ELSE df.rows[i][sc],
             t |-> IF tc = 0 THEN Str(<<>>) ELSE df.rows[i][tc]]]

\* df.dropna(how='all') keeps a row unless every cell of it is missing
DropnaKeeps(r) == ~(r.p.na /\ r.s.na /\ r.t.na)

\* mask: (Parent.astype(str).str.strip() != '') | (Student.astype(str).str.strip() != '')
Mask(r) == strip(astype_str(r.p)) # <<>> \/ strip(astype_str(r.s)) # <<>>

\* a row of the canonical table that lines 75-77 keep
Survives(r) == DropnaKeeps(r) /\ Mask(r)

RECURSIVE SelectRows(_)
SelectRows(rows) ==
    IF rows = <<>> THEN <<>>
    ELSE IF Survives(Head(rows)) THEN <<Head(rows)>> \o SelectRows(Tail(rows))
    ELSE SelectRows(Tail(rows))

\* the sort key without .str.lower(): Parent Name.astype(str)
Parent_sort_cased(r) == astype_str(r.p)

\* Parent_sort = Parent Name.astype(str).str.lower()
Parent_sort(r) == lower(astype_str(r.p))

\* order of the second sort key, the raw 'Student Name' column: strings by code
\* point, missing values last (na_position='last')
StudentLT(a, b) ==
    IF a.na THEN FALSE
    ELSE IF b.na THEN TRUE
    ELSE StrLT(a.s, b.s)

\* strict order of sort_values(['Parent_sort', 'Student Name'], ascending)
RowLT(a, b) ==
    \/ StrLT(Parent_sort(a), Parent_sort(b))
    \/ /\ Parent_sort(a) = Parent_sort(b)
       /\ StudentLT(a.s, b.s)

\* stable insertion of row r into a sorted sequence: before the first row that
\* is not smaller than r
RECURSIVE InsertRow(_, _)
InsertRow(r, sorted) ==
    IF sorted = <<>> THEN <<r>>
    ELSE IF ~RowLT(Head(sorted), r) THEN <<r>> \o sorted
    ELSE <<Head(sorted)>> \o InsertRow(r, Tail(sorted))

\* DataFrame.sort_values: a stable sort (rows are inserted last to first, each
\* before its equals, so equal rows keep their order)
RECURSIVE sort_values(_)
sort_values(rows) ==
    IF rows = <<>> THEN <<>>
    ELSE InsertRow(Head(rows), sort_values(Tail(rows)))

\* numbering from range(len(df)) instead: 0..N-1
InsertNo_from0(rows) ==
    [i \in 1..Len(rows) |->
        [No |-> i - 1, p |-> rows[i].p, s |-> rows[i].s, t |-> rows[i].t]]

\* df.insert(0, 'No', range(1, len(df) + 1))
InsertNo(rows) ==
    [i \in 1..Len(rows) |->
        [No |-> i, p |-> rows[i].p, s |-> rows[i].s, t |-> rows[i].t]]

normalize_and_sort(df) == InsertNo(sort_values(SelectRows(Canonical(df))))

\* build_main_html: one <tr> per row of the frame
build_rows(rows) ==
    [i \in 1..Len(rows) |->
        <<rows[i].No, esc(rows[i].p), esc(rows[i].s), esc(rows[i].t)>>]

----------------------------------------------------------------------------
(* generate_parentlist_html.py : the tables read from the CSV *)

h_Parent_Name  == <<80,97,114,101,110,116,32,78,97,109,101>>       \* "Parent Name"
h_Student_Name == <<83,116,117,100,101,110,116,32,78,97,109,101>>  \* "Student Name"
h_Timestamp    == <<84,105,109,101,115,116,97,109,112>>            \* "Timestamp"

\* header rows of the CSV files considered
HeaderLayouts ==
    { <<h_Parent_Name, h_Student_Name, h_Timestamp>>,
      <<h_Student_Name, h_Timestamp>> }

\* cells read_csv can produce: an empty cell is NaN, text is kept as it is
ParentCells  == {NaN, Str(<<32>>), Str(<<97>>), Str(<<65>>), Str(<<66>>)}  \* " " a A B
StudentCells == {NaN, Str(<<32>>), Str(<<111>>), Str(<<80>>)}              \* " " o P
TimeCells    == {NaN, Str(<<116>>)}                                        \* t

\* rows of a CSV with the given header; a row without a timestamp is drawn
\* only with empty name cells (the timestamp is read by dropna alone)
InputRows(columns) ==
    IF Len(columns) = 3
    THEN {<<p, s, Str(<<116>>)>> : p \in ParentCells, s \in StudentCells}
            \cup {<<NaN, NaN, NaN>>}
    ELSE {<<s, Str(<<116>>)>> : s \in StudentCells} \cup {<<NaN, NaN>>}

\* df is one of the tables of up to n rows
IsTable(df, n) ==
    \E c \in HeaderLayouts, k \in 0..n :
        \E rs \in [1..k -> InputRows(c)] : df = [columns |-> c, rows |-> rs]

\* header names for the tables of the column matching (next to "Parent Name",
\* "Student Name" and "Timestamp")
h_PARENT_sp == <<32,80,65,82,69,78,84,32>>  \* " PARENT "
h_parent_name_sp == <<32,112,97,114,101,110,116,32,110,97,109,101,32>>  \* " parent name "
h_parent_name == <<112,97,114,101,110,116,95,110,97,109,101>>  \* "parent_name"
h_Student == <<83,116,117,100,101,110,116>>  \* "Student"
h_Submitted_On == <<83,117,98,109,105,116,116,101,100,32,79,110>>  \* "Submitted On"
h_Phone == <<80,104,111,110,101>>  \* "Phone"

HeaderPool ==
    {h_Parent_Name, h_Student_Name, h_Timestamp, h_PARENT_sp, h_parent_name_sp,
     h_parent_name, h_Student, h_Submitted_On, h_Phone}

\* the cell of row i, column j: a text that names its row and column
MarkedCell(i, j) == Str(<<48 + j, 96 + i>>)

\* df is a table of up to MaxHeaders distinct columns from HeaderPool and up to
\* n rows of marked cells
IsMarkedTable(df, n) ==
    \E w \in 0..MaxHeaders, k \in 0..n :
        \E c \in [1..w -> HeaderPool] :
            /\ \A a, b \in 1..w : a # b => c[a] # c[b]
            /\ df = [columns |-> c,
                     rows |-> [i \in 1..k |-> [j \in 1..w |-> MarkedCell(i, j)]]]


----------------------------------------------------------------------------
(* Process start and end *)

\* what a script leaves before it has run: no output file, nothing handled
NoOutputs == [files |-> {}, handled |-> 0, content |-> <<>>]

InitCommon ==
    /\ exit_code = -1
    /\ exit_via = "none"
    /\ log = <<>>
    /\ run = 1
    /\ first_run = NoOutputs

\* no pixel
NoPixel == [of |-> "none", x |-> 0, y |-> 0]

\* read_student_data is not being called on its own
IdleRD ==
    /\ rd_pc = "idle"
    /\ rd_in = [kind |-> "none"]
    /\ rd_out = [kind |-> "none"]

\* the steps of process_image are not being run on their own
IdlePA ==
    /\ pa_pc = "idle"
    /\ pa_in = [kind |-> "none"]
    /\ pa_out = [kind |-> "none"]

\* add_stationery_border is not being called on its own
IdleBD ==
    /\ bd_pc = "idle"
    /\ bd_in = [size |-> <<0, 0>>, x |-> 0, y |-> 0]
    /\ bd_out = NoPixel

\* sys.exit(code)
SysExit(code) ==
    /\ exit_code' = code
    /\ exit_via' = "sys.exit"

\* main() returns and the interpreter ends normally
NormalEnd ==
    /\ exit_code' = 0
    /\ exit_via' = "return"

\* an exception nobody catches: traceback, exit status 1
Traceback ==
    /\ exit_code' = 1
    /\ exit_via' = "traceback"

----------------------------------------------------------------------------
(* process_photos.py *)

PASSPORT_WIDTH == 413
PASSPORT_HEIGHT == 531

\* border_width of add_floral_border (HEAD) and of add_stationery_border
border_width(side) == IF side = "HEAD" THEN 20 ELSE 12

\* add_floral_border / add_stationery_border: new_size of the bordered image
add_border(size, side) ==
    <<size[1] + 2 * border_width(side), size[2] + 2 * border_width(side)>>

\* the pixels of an image: one of the photo passed in, or a colour drawn
PhotoPixel(x, y) == [of |-> "photo", x |-> x, y |-> y]
Black == [of |-> "(0, 0, 0)", x |-> 0, y |-> 0]
White == [of |-> "(255, 255, 255)", x |-> 0, y |-> 0]

\* ImageDraw.rectangle(box, outline=..., width=width): the pixels painted are
\* those of the box (both corners included) less than `width` from an edge
on_outline(box, width, x, y) ==
    /\ box[1] <= x /\ x <= box[3]
    /\ box[2] <= y /\ y <= box[4]
    /\ \/ x - box[1] < width
       \/ box[3] - x < width
       \/ y - box[2] < width
       \/ box[4] - y < width

\* outer_box and inner_box of add_stationery_border (lines 124, 128)
outer_box(new_size) ==
    <<border_width("theirs") - 2, border_width("theirs") - 2,
      new_size[1] - border_width("theirs") + 1,
      new_size[2] - border_width("theirs") + 1>>
inner_box(new_size) ==
    <<border_width("theirs") + 4, border_width("theirs") + 4,
      new_size[1] - border_width("theirs") - 5,
      new_size[2] - border_width("theirs") - 5>>

\* whether (x, y) of the bordered image is where the photo was pasted
\* (bordered.paste(image, (border_width, border_width)), line 60)
in_pasted(size, x, y) ==
    /\ border_width("theirs") <= x /\ x < border_width("theirs") + size[1]
    /\ border_width("theirs") <= y /\ y < border_width("theirs") + size[2]

\* add_stationery_border(image): pixel (x, y) of the image returned, for a
\* photo of the given size.  White canvas (59), paste (60), outer rectangle of
\* width 3 (125), inner rectangle of width 1 (129), in this order.
add_stationery_border(size, x, y) ==
    LET new_size == add_border(size, "theirs")
        pasted == IF in_pasted(size, x, y)
                  THEN PhotoPixel(x - border_width("theirs"),
                                  y - border_width("theirs"))
                  ELSE White
    IN  IF on_outline(inner_box(new_size), 1, x, y) THEN Black
        ELSE IF on_outline(outer_box(new_size), 3, x, y) THEN Black
        ELSE pasted

\* sizes of the photos passed: the passport canvas of process_image, and a
\* small image
BorderSizes == {<<PASSPORT_WIDTH, PASSPORT_HEIGHT>>, <<40, 60>>}

\* coordinates looked at along an axis of length n: the corners, both sides of
\* each edge of the pasted photo, and a point well inside
ProbeCoords(n) ==
    {0, 9, 10, 11, 12, 13, 15, 16, 17, 30,
     n - 18, n - 17, n - 16, n - 14, n - 13, n - 12, n - 11, n - 10, n - 1}

\* one call of add_stationery_border
BD_Call ==
    /\ script = "add_stationery_border"
    /\ bd_pc = "call"
    /\ bd_out' = add_stationery_border(bd_in.size, bd_in.x, bd_in.y)
    /\ bd_pc' = "done"
    /\ UNCHANGED <<commonVars, bd_in, plVars, phVars, pptVars, ceVars, invVars,
                   dsVars, shVars, paVars, rdVars, rerunVars>>

NextBorder == BD_Call

\* FACE_PERCENT = 0.6, in tenths
FACE_PERCENT_TENTHS == 6

\* desired_face_height = int(PASSPORT_HEIGHT * FACE_PERCENT)
desired_face_height == (PASSPORT_HEIGHT * FACE_PERCENT_TENTHS) \div 10

\* whether the float product c * (desired_face_height / h) can fall just
\* below its exact value: only when that value is a whole number
can_round_down(c, h) ==
    /\ (c * desired_face_height) % h = 0
    /\ (c * desired_face_height) \div h > 0

\* int(c * scale) with scale = desired_face_height / h in float arithmetic:
\* the whole part of the exact quotient, or one less when the quotient is a
\* whole number the float product falls just below (`down`)
int_scaled(c, h, down) ==
    LET q == (c * desired_face_height) \div h
    IN  IF down /\ can_round_down(c, h) THEN q - 1 ELSE q

\* face_center = (x + w//2, y + h//2)
face_center(face) == <<face[1] + face[3] \div 2, face[2] + face[4] \div 2>>

\* the placement with the top left corner of the canvas as the target
paste_offset_corner(face_xy) == <<0 - face_xy[1], 0 - face_xy[2]>>

\* paste_x = PASSPORT_WIDTH//2 - face_x, paste_y = PASSPORT_HEIGHT//2 - face_y
paste_offset(face_xy) ==
    <<PASSPORT_WIDTH \div 2 - face_xy[1], PASSPORT_HEIGHT \div 2 - face_xy[2]>>

\* process_image, lines 239-262, for an image of the given size with the
\* face box found in it; `down` names the float products that fall short
scale_and_place(size, face, down) ==
    LET h == face[4]
        c == face_center(face)
        face_xy == <<int_scaled(c[1], h, "x" \in down),
                     int_scaled(c[2], h, "y" \in down)>>
    IN  [kind |-> "placed",
         face_height |-> desired_face_height,
         new_size |-> <<int_scaled(size[1], h, "w" \in down),
                        int_scaled(size[2], h, "h" \in down)>>,
         face_xy |-> face_xy,
         paste |-> paste_offset(face_xy)]

\* images and face boxes (x, y, w, h) detect_face can return for them
FaceInputs ==
    {[kind |-> "face", size |-> s, face |-> <<x, y, w, h>>, down |-> d] :
        s \in {<<640, 480>>, <<2000, 3000>>},
        x \in {0, 39, 50}, y \in {0, 40, 78}, w \in {13, 100},
        h \in {13, 100, 318, 400}, d \in SUBSET {"w", "h", "x", "y"}}

\* the face box lies in the image, and only a product that can fall short does
IsFaceInput(in) ==
    /\ in \in FaceInputs
    /\ in.face[1] + in.face[3] <= in.size[1]
    /\ in.face[2] + in.face[4] <= in.size[2]
    /\ "w" \in in.down => can_round_down(in.size[1], in.face[4])
    /\ "h" \in in.down => can_round_down(in.size[2], in.face[4])
    /\ "x" \in in.down => can_round_down(face_center(in.face)[1], in.face[4])
    /\ "y" \in in.down => can_round_down(face_center(in.face)[2], in.face[4])

\* the scaling and placement of process_image on one image
PA_Place ==
    /\ script = "process_image"
    /\ pa_pc = "face"
    /\ pa_out' = scale_and_place(pa_in.size, pa_in.face, pa_in.down)
    /\ pa_pc' = "placed"
    /\ UNCHANGED <<commonVars, pa_in, plVars, phVars, pptVars, ceVars, invVars,
                   dsVars, shVars, bdVars, rdVars, rerunVars>>

\* range(-p, ...): the loop started at -p without the max(0, ...)
range_start_unclamped(p) == 0 - p

\* max(0, -paste_y), max(0, -paste_x): first index of the paste loops
range_start(p) == IF 0 - p > 0 THEN 0 - p ELSE 0

\* min(new_height, PASSPORT_HEIGHT - paste_y) and the same for the width:
\* the index the paste loops stop before
range_stop(n, limit, p) == IF n < limit - p THEN n ELSE limit - p

\* the test of line 271 on image index (j, i)
in_canvas(paste, j, i) ==
    /\ 0 <= paste[2] + i /\ paste[2] + i < PASSPORT_HEIGHT
    /\ 0 <= paste[1] + j /\ paste[1] + j < PASSPORT_WIDTH

\* whether the loops of lines 268-272 assign canvas pixel (cx, cy)
is_pasted(new_size, paste, cx, cy) ==
    LET i == cy - paste[2]
        j == cx - paste[1]
    IN  /\ range_start(paste[2]) <= i
        /\ i < range_stop(new_size[2], PASSPORT_HEIGHT, paste[2])
        /\ range_start(paste[1]) <= j
        /\ j < range_stop(new_size[1], PASSPORT_WIDTH, paste[1])
        /\ in_canvas(paste, j, i)

\* lines 265-272: the image indexes the loops read (rows i, columns j, as
\* half-open ranges cut by the test of line 271), and canvas pixel (cx, cy)
\* after the loops: white (line 262) unless assigned
paste_loop(new_size, paste, cx, cy) ==
    LET lo_i == range_start(paste[2])
        hi_i == range_stop(new_size[2], PASSPORT_HEIGHT, paste[2])
        lo_j == range_start(paste[1])
        hi_j == range_stop(new_size[1], PASSPORT_WIDTH, paste[1])
        cut_lo(lo, p) == IF lo < 0 - p THEN 0 - p ELSE lo
        cut_hi(hi, limit, p) == IF hi > limit - p THEN limit - p ELSE hi
    IN  [kind |-> "pasted",
         rows |-> <<cut_lo(lo_i, paste[2]), cut_hi(hi_i, PASSPORT_HEIGHT, paste[2])>>,
         cols |-> <<cut_lo(lo_j, paste[1]), cut_hi(hi_j, PASSPORT_WIDTH, paste[1])>>,
         pixel |-> IF is_pasted(new_size, paste, cx, cy)
                   THEN PhotoPixel(cx - paste[1], cy - paste[2])
                   ELSE White]

\* resized images, paste offsets (negative, zero, positive, beyond the canvas
\* on either side) and canvas pixels looked at
PasteInputs ==
    {[kind |-> "paste", new_size |-> s, paste |-> <<px, py>>, x |-> cx, y |-> cy] :
        s \in {<<600, 700>>, <<300, 200>>, <<1, 1>>},
        px \in {-700, -250, -1, 0, 1, 150, 412, 413, 500},
        py \in {-800, -300, -1, 0, 1, 200, 530, 531, 600},
        cx \in {0, 1, 150, 206, PASSPORT_WIDTH - 1},
        cy \in {0, 1, 200, 265, PASSPORT_HEIGHT - 1}}

\* the paste loops of process_image on one resized image and offset
PA_Paste ==
    /\ script = "process_image"
    /\ pa_pc = "paste"
    /\ pa_out' = paste_loop(pa_in.new_size, pa_in.paste, pa_in.x, pa_in.y)
    /\ pa_pc' = "pasted"
    /\ UNCHANGED <<commonVars, pa_in, plVars, phVars, pptVars, ceVars, invVars,
                   dsVars, shVars, bdVars, rdVars, rerunVars>>

\* the image extensions main() accepts
image_extensions ==
    { <<46,112,110,103>>,        \* ".png"
      <<46,106,112,103>>,        \* ".jpg"
      <<46,106,112,101,103>>,    \* ".jpeg"
      <<46,119,101,98,112>> }    \* ".webp"

\* str.endswith(suffix)
endswith(x, suffix) ==
    /\ Len(suffix) <= Len(x)
    /\ SubSeq(x, Len(x) - Len(suffix) + 1, Len(x)) = suffix

\* the test of line 315 without .lower(): the extension is compared as written
IsImageName_cased(name) == \E e \in image_extensions : endswith(name, e)

\* filename.lower().endswith(('.png', '.jpg', '.jpeg', '.webp'))
IsImageName(name) == \E e \in image_extensions : endswith(lower(name), e)

NoFace == <<>>

\* process_image without the `if face is None: return False` of lines 235-237:
\* the whole image is scaled and saved
process_image_no_face_check(img, side, raised) ==
    IF ~img.readable THEN [ret |-> FALSE, saved |-> <<>>]
    ELSE IF raised THEN [ret |-> FALSE, saved |-> <<>>]
    ELSE [ret |-> TRUE,
          saved |-> add_border(<<PASSPORT_WIDTH, PASSPORT_HEIGHT>>, side)]

\* process_image(input_path, output_path): the value returned and the size of
\* the image saved (<<>>: nothing saved).  `raised` says whether a step between
\* face detection and the end of the save raises (cv2.resize on a huge scaled
\* image, PIL save); the except clause turns it into False.
process_image(img, side, raised) ==
    IF ~img.readable THEN [ret |-> FALSE, saved |-> <<>>]
    ELSE IF img.face = NoFace THEN [ret |-> FALSE, saved |-> <<>>]
    ELSE IF raised THEN [ret |-> FALSE, saved |-> <<>>]
    ELSE [ret |-> TRUE,
          saved |-> add_border(<<PASSPORT_WIDTH, PASSPORT_HEIGHT>>, side)]

n_a_png     == <<97,46,112,110,103>>                \* "a.png"
n_b_JPG     == <<98,46,74,80,71>>                   \* "b.JPG"
n_c_webp    == <<99,46,119,101,98,112>>             \* "c.webp"
n_notes_txt == <<110,111,116,101,115,46,116,120,116>> \* "notes.txt"
n_Processed == <<80,114,111,99,101,115,115,101,100>>  \* "Processed"

\* what cv2.imread and detect_face give for a file: unreadable, no face, or
\* the largest face box (x, y, w, h) in an image of the given size
Contents ==
    { [readable |-> FALSE, size |-> <<0, 0>>, face |-> NoFace],
      [readable |-> TRUE, size |-> <<640, 480>>, face |-> NoFace],
      [readable |-> TRUE, size |-> <<640, 480>>, face |-> <<50, 40, 100, 100>>],
      [readable |-> TRUE, size |-> <<2000, 3000>>, face |-> <<900, 1200, 30, 30>>] }

NotAnImage == [readable |-> FALSE, size |-> <<0, 0>>, face |-> NoFace]

\* entries of the Photos folder; `raises` says whether a step of process_image
\* after the face detection raises on this file
FolderEntries ==
    {[name |-> n, img |-> c, raises |-> FALSE] :
         n \in {n_a_png, n_b_JPG, n_c_webp}, c \in Contents}
       \cup {[name |-> n, img |-> c, raises |-> TRUE] :
                n \in {n_a_png, n_b_JPG, n_c_webp},
                c \in {d \in Contents : d.readable /\ d.face # NoFace}}
       \cup {[name |-> n, img |-> NotAnImage, raises |-> FALSE] :
                n \in {n_notes_txt, n_Processed}}

\* a directory listing: up to n entries with different names, in any order
IsListing(files, n) ==
    \E k \in 0..n :
        \E fs \in [1..k -> FolderEntries] :
            /\ \A i, j \in 1..k : i # j => fs[i].name # fs[j].name
            /\ files = fs

\* main, lines 308-311: create_dirs() and the counters
PH_Start ==
    /\ script = "process_photos"
    /\ ph_pc = "main"
    /\ success_count' = 0
    /\ error_count' = 0
    /\ ph_i' = 1
    /\ ph_pc' = "loop"
    /\ UNCHANGED <<commonVars, ph_side, ph_files, ph_written, ph_ret, notPH>>

\* main, lines 314-322: one iteration of the loop over os.listdir(INPUT_FOLDER)
PH_File ==
    /\ script = "process_photos"
    /\ ph_pc = "loop"
    /\ ph_i <= Len(ph_files)
    /\ LET f == ph_files[ph_i] IN
       \/ /\ ~IsImageName(f.name)
          /\ ph_ret' = Append(ph_ret, "skipped")
          /\ UNCHANGED <<log, ph_written, success_count, error_count>>
       \/ /\ IsImageName(f.name)
          /\ LET r == process_image(f.img, ph_side, f.raises) IN
                /\ ph_ret' = Append(ph_ret, IF r.ret THEN "True" ELSE "False")
                /\ ph_written' =
                      IF r.saved = <<>> THEN ph_written
                      ELSE ph_written \cup {[name |-> f.name, size |-> r.saved]}
                /\ success_count' = IF r.ret THEN success_count + 1 ELSE success_count
                /\ error_count' = IF r.ret THEN error_count ELSE error_count + 1
                /\ log' = Append(log,
                             IF r.ret THEN "Processed"
                             ELSE IF ~f.img.readable THEN "Could not read image"
                             ELSE IF f.img.face = NoFace THEN "No face detected"
                             ELSE "Error processing")
    /\ ph_i' = ph_i + 1
    /\ UNCHANGED <<script, exit_code, exit_via, ph_pc, ph_side, ph_files, notPH>>

\* main, lines 324-333: the summary, and the end of the process
PH_Summary ==
    /\ script = "process_photos"
    /\ ph_pc = "loop"
    /\ ph_i > Len(ph_files)
    /\ log' = Append(log, IF success_count + error_count > 0
                          THEN "Processing complete" ELSE "No image files found")
    /\ ph_pc' = "done"
    /\ NormalEnd
    /\ UNCHANGED <<script, ph_side, ph_files, ph_i, ph_written, ph_ret,
                   success_count, error_count, notPH>>

\* a listing of Photos that also walks into Photos/Processed: every file the
\* earlier run wrote there is listed again
listdir_recursive(files, written) ==
    files \o SelectSeq(files, LAMBDA f : \E w \in written : w.name = f.name)

\* os.listdir(INPUT_FOLDER) (line 314) once an earlier run has written its
\* images: create_dirs (line 32) made Photos/Processed, which is listed as the
\* one entry "Processed"; the files inside it are not listed
listdir(files, written) ==
    IF \E k \in 1..Len(files) : files[k].name = n_Processed THEN files
    ELSE Append(files, [name |-> n_Processed, img |-> NotAnImage, raises |-> FALSE])

\* the script is started again after it has ended; Photos is as it was, apart
\* from what the earlier run wrote (OUTPUT_FOLDER, lines 24-25)
PH_Rerun ==
    /\ script = "process_photos"
    /\ ph_pc = "done"
    /\ run < MaxRuns
    /\ run' = run + 1
    /\ first_run' = IF run = 1
                    THEN [files |-> ph_written,
                          handled |-> success_count + error_count,
                          content |-> <<>>]
                    ELSE first_run
    /\ ph_files' = listdir(ph_files, ph_written \cup first_run.files)
    /\ ph_pc' = "main"
    /\ ph_i' = 0
    /\ ph_written' = {}
    /\ ph_ret' = <<>>
    /\ success_count' = 0
    /\ error_count' = 0
    /\ exit_code' = -1
    /\ exit_via' = "none"
    /\ log' = <<>>
    /\ UNCHANGED <<script, ph_side, plVars, pptVars, ceVars, invVars, dsVars,
                   shVars, bdVars, paVars, rdVars>>

NextPhotos == PH_Start \/ PH_File \/ PH_Summary \/ PH_Rerun

\* process_photos.py is not the script being run
IdlePH ==
    /\ ph_pc = "idle"
    /\ ph_side = "theirs"
    /\ ph_files = <<>>
    /\ ph_i = 0
    /\ ph_written = {}
    /\ ph_ret = <<>>
    /\ success_count = 0
    /\ error_count = 0

----------------------------------------------------------------------------
(* student_ppt.py *)

\* Name cells of student_ppt_csv.csv: a column of text holds NaN or strings
\* ("A", "B"), a column of numbers holds NaN or numbers (7)
NameCells(numeric) ==
    IF numeric THEN {NaN, Str(<<55>>)} ELSE {NaN, Str(<<65>>), Str(<<66>>)}

\* the student tables of up to n rows
StudentTable(numeric, rs) == [numeric |-> numeric, rows |-> rs]

NoStudents == [numeric |-> FALSE, rows |-> <<>>]

\* pd.isna(student.get('Name'))
isna(cell) == cell.na

\* create_student_slide without the pd.isna check of lines 88-90: a blank
\* slide is added before str-methods fail on the missing Name
create_student_slide_no_isna(slides, i, name, numeric) ==
    IF isna(name) \/ numeric THEN [slides |-> Append(slides, i), how |-> "raised"]
    ELSE [slides |-> Append(slides, i), how |-> "ok"]

\* create_student_slide(prs, student) for row i with Name cell `name` of a
\* column that is numeric or not: the slides afterwards, and how the call
\* ended ("skipped": returned at line 90; "raised": .upper() on a number,
\* line 195, after the slide was added at line 93; "ok")
create_student_slide(slides, i, name, numeric) ==
    IF isna(name) THEN [slides |-> slides, how |-> "skipped"]
    ELSE IF numeric THEN [slides |-> Append(slides, i), how |-> "raised"]
    ELSE [slides |-> Append(slides, i), how |-> "ok"]

\* f"{base}_{timestamp}{ext}" in the working directory, and the same basename
\* in tempfile.gettempdir(): strftime('%Y%m%d_%H%M%S') is the clock in seconds
save_name(now) == <<"cwd", now>>
temp_path(now) == <<"tmp", now>>

\* prs.save(path) by run r on the file system fs
Saved(fs, path, r) ==
    IF path \in DOMAIN fs THEN [fs EXCEPT ![path] = Append(@, r)]
    ELSE [q \in DOMAIN fs \cup {path} |-> IF q = path THEN <<r>> ELSE fs[q]]

\* the three converters of save_ppt_as_pdf, in the order of the code
Converters == <<"comtypes", "win32com", "soffice">>

\* what running one converter block can do: "absent" (the import fails, or
\* shutil.which finds no soffice), "raises" (an exception before the PDF is
\* written), "silent" (the block completes and writes nothing), "writes" (the
\* block completes and the PDF is written), "writes_raises" (the PDF is
\* written and a later statement of the block raises: Close, Quit, or a
\* nonzero exit status under check=True)
Outcomes == {"absent", "raises", "silent", "writes", "writes_raises"}

ConverterRuns == [1..3 -> Outcomes]
NoConverter == [k \in 1..3 |-> "absent"]

\* save_ppt_as_pdf from converter k on; `exists` is os.path.exists(pdf_path)
RECURSIVE try_converters(_, _, _)
try_converters(k, conv, exists) ==
    IF k > 3 THEN [tried |-> <<>>, found |-> FALSE, exists |-> exists]
    ELSE LET o == conv[k]
             now_exists == exists \/ o \in {"writes", "writes_raises"}
             this == <<[converter |-> Converters[k], outcome |-> o]>>
             rest == try_converters(k + 1, conv, now_exists)
         IN  IF o = "absent" THEN rest
             ELSE IF o \in {"writes", "silent"} /\ now_exists
                THEN [tried |-> this, found |-> TRUE, exists |-> now_exists]
             ELSE [tried |-> this \o rest.tried, found |-> rest.found,
                   exists |-> rest.exists]

\* save_ppt_as_pdf(pptx_path): the converters run, the value returned, and
\* whether the PDF is on disk afterwards
save_ppt_as_pdf(conv, exists) ==
    LET r == try_converters(1, conv, exists)
    IN  [tried |-> r.tried,
         ret |-> IF r.found THEN "pdf_path" ELSE "None",
         exists |-> r.exists]

\* os.path.splitext(pptx_path)[0] + '.pdf' and f"{desired_pdf_base}_{timestamp}.pdf"
pdf_path(now) == <<"Students_Presentation.pdf", now>>
desired_pdf_path(now) == <<"Students_PDF.pdf", now>>

\* how lines 364-371 can end: both calls work, os.remove raises, os.replace raises
RenameOutcomes == {"ok", "remove_raises", "replace_raises"}

\* lines 362-371: move the PDF to the desired name, any exception passed over
rename_pdf(fs, now, ren) ==
    IF desired_pdf_path(now) \in fs /\ ren = "remove_raises" THEN fs
    ELSE IF ren = "replace_raises" THEN fs \ {desired_pdf_path(now)}
    ELSE (fs \ {pdf_path(now)}) \cup {desired_pdf_path(now)}

\* the PDF step without the exception guards of lines 285, 301, 314 and 375:
\* an exception raised by a converter leaves the step
pdf_step_unguarded(fs, now, conv, ren) ==
    LET r == save_ppt_as_pdf(conv, pdf_path(now) \in fs)
        fs1 == IF r.exists THEN fs \cup {pdf_path(now)} ELSE fs
    IN  [fs |-> fs1, tried |-> r.tried, ret |-> r.ret, messages |-> <<>>,
         propagates |-> \E j \in 1..Len(r.tried) :
                           r.tried[j].outcome \in {"raises", "writes_raises"}]

\* lines 353-376, the PDF step of create_presentation on PDF files fs:
\* `propagates` says whether an exception leaves the inner try statement
pdf_step(fs, now, conv, ren) ==
    LET r == save_ppt_as_pdf(conv, pdf_path(now) \in fs)
        fs1 == IF r.exists THEN fs \cup {pdf_path(now)} ELSE fs
    IN  IF r.ret # "None"
           THEN [fs |-> rename_pdf(fs1, now, ren), tried |-> r.tried, ret |-> r.ret,
                 messages |-> <<"PDF saved">>, propagates |-> FALSE]
        ELSE [fs |-> fs1, tried |-> r.tried, ret |-> r.ret,
              messages |-> <<"Could not convert PPTX to PDF automatically",
                             "PDF conversion was not completed automatically">>,
              propagates |-> FALSE]

\* prs.save(save_name) raised: the PDF step is not reached
NoPdfStep(fs) ==
    [fs |-> fs, tried |-> <<>>, ret |-> "not called", messages |-> <<>>,
     propagates |-> FALSE]

\* main, lines 393-405, into create_presentation, lines 323-336
PPT_Main ==
    /\ script = "student_ppt"
    /\ ppt_pc = "main"
    /\ \/ /\ ~ppt_env.csv_exists
          /\ log' = Append(log, "CSV file not found")
          /\ ppt_pc' = "done"
          /\ NormalEnd
          /\ UNCHANGED <<ppt_df, ppt_i, ppt_success_count, ppt_result>>
       \/ /\ ppt_env.csv_exists
          /\ ~ppt_env.photos_exists
          /\ log' = Append(log, "Photos folder not found")
          /\ ppt_pc' = "done"
          /\ NormalEnd
          /\ UNCHANGED <<ppt_df, ppt_i, ppt_success_count, ppt_result>>
       \/ \* read_student_data() returns None
          /\ ppt_env.csv_exists
          /\ ppt_env.photos_exists
          /\ log' = Append(log, "Error reading CSV")
          /\ ppt_result' = "False"
          /\ ppt_pc' = "done"
          /\ NormalEnd
          /\ UNCHANGED <<ppt_df, ppt_i, ppt_success_count>>
       \/ /\ ppt_env.csv_exists
          /\ ppt_env.photos_exists
          /\ ppt_df' = ppt_env.table
          /\ log' = Append(log, "Read student records")
          /\ ppt_success_count' = 0
          /\ ppt_i' = 1
          /\ ppt_pc' = "loop"
          /\ UNCHANGED <<exit_code, exit_via, ppt_result>>
    /\ UNCHANGED <<script, fs_clock, fs_pptx, ppt_env, ppt_run, ppt_slides, fs_pdf,
                   pdf_tried, pdf_ret, notPPT>>

\* create_presentation, lines 337-342: one iteration of the slide loop
PPT_Slide ==
    /\ script = "student_ppt"
    /\ ppt_pc = "loop"
    /\ ppt_i <= Len(ppt_df.rows)
    /\ LET r == create_student_slide(ppt_slides, ppt_i, ppt_df.rows[ppt_i],
                                     ppt_df.numeric)
       IN  /\ ppt_slides' = r.slides
           /\ ppt_success_count' =
                 IF r.how = "raised" THEN ppt_success_count ELSE ppt_success_count + 1
           /\ log' = IF r.how = "skipped"
                        THEN Append(log, "Skipping student with missing name")
                     ELSE IF r.how = "raised"
                        THEN Append(log, "Error creating slide")
                     ELSE log
    /\ ppt_i' = ppt_i + 1
    /\ UNCHANGED <<script, exit_code, exit_via, fs_clock, fs_pptx, ppt_env, ppt_run,
                   ppt_pc, ppt_df, ppt_result, fs_pdf, pdf_tried, pdf_ret, notPPT>>

\* a create_presentation that gives up as soon as the first save has failed
save_result_without_fallback(to_except, temp) ==
    IF to_except THEN "False" ELSE "True"

\* what create_presentation returns after the save, lines 377, 385 and 389:
\* to_except says that the outer handler was entered, temp that the save to
\* the temp directory succeeded
save_result(to_except, temp) ==
    IF to_except /\ ~temp THEN "False" ELSE "True"

\* create_presentation, lines 344-391: save under a timestamped name, convert
\* to PDF, fall back to the temp directory when the save raises; then main
\* returns
PPT_Save ==
    /\ script = "student_ppt"
    /\ ppt_pc = "loop"
    /\ ppt_i > Len(ppt_df.rows)
    /\ \E now \in fs_clock..MaxClock, primary \in BOOLEAN, temp \in BOOLEAN :
        \E conv \in (IF primary THEN ConverterRuns ELSE {NoConverter}),
           ren \in (IF primary THEN RenameOutcomes ELSE {"ok"}) :
          LET step == IF primary THEN pdf_step(fs_pdf, now, conv, ren)
                      ELSE NoPdfStep(fs_pdf)
              fs1 == IF primary THEN Saved(fs_pptx, save_name(now), ppt_run)
                     ELSE fs_pptx
              to_except == ~primary \/ step.propagates
          IN  /\ fs_clock' = now
              /\ fs_pdf' = step.fs
              /\ pdf_tried' = step.tried
              /\ pdf_ret' = step.ret
              /\ fs_pptx' = IF to_except /\ temp
                               THEN Saved(fs1, temp_path(now), ppt_run)
                            ELSE fs1
              /\ log' = log
                    \o (IF primary
                           THEN <<"Successfully created slides", "Presentation saved">>
                        ELSE <<>>)
                    \o step.messages
                    \o (IF ~to_except THEN <<>>
                        ELSE IF temp THEN <<"Error saving presentation",
                                            "Saved presentation to temp path">>
                        ELSE <<"Error saving presentation",
                               "Failed to save presentation to temp path">>)
              /\ ppt_result' = save_result(to_except, temp)
    /\ ppt_pc' = "done"
    /\ NormalEnd
    /\ UNCHANGED <<script, ppt_env, ppt_run, ppt_df, ppt_i, ppt_slides,
                   ppt_success_count, notPPT>>

\* the script is started again, on the same files, after the run has ended
PPT_NextRun ==
    /\ script = "student_ppt"
    /\ ppt_pc = "done"
    /\ ppt_run < MaxRuns
    /\ ppt_run' = ppt_run + 1
    /\ ppt_pc' = "main"
    /\ exit_code' = -1
    /\ exit_via' = "none"
    /\ log' = <<>>
    /\ ppt_df' = NoStudents
    /\ ppt_i' = 0
    /\ ppt_slides' = <<>>
    /\ ppt_success_count' = 0
    /\ ppt_result' = "none"
    /\ pdf_tried' = <<>>
    /\ pdf_ret' = "not called"
    /\ UNCHANGED <<script, fs_clock, fs_pptx, fs_pdf, ppt_env, notPPT>>

NextPpt == PPT_Main \/ PPT_Slide \/ PPT_Save \/ PPT_NextRun

\* student_ppt.py is not the script being run
IdlePPT ==
    /\ fs_clock = 0
    /\ fs_pptx = <<>>
    /\ ppt_env = [csv_exists |-> FALSE, photos_exists |-> FALSE, table |-> NoStudents]
    /\ ppt_run = 0
    /\ ppt_pc = "idle"
    /\ ppt_df = NoStudents
    /\ ppt_i = 0
    /\ ppt_slides = <<>>
    /\ ppt_success_count = 0
    /\ ppt_result = "none"
    /\ fs_pdf = {}
    /\ pdf_tried = <<>>
    /\ pdf_ret = "not called"

----------------------------------------------------------------------------
(* student_ppt.py : read_student_data *)

\* encodings, line 40
encodings == <<"utf-8", "latin-1", "cp1252">>

\* a continuation byte of UTF-8
IsCont(b) == b \in 128..191

\* bytes.decode('utf-8') of a text without four-byte characters: the code
\* points, or failed when some byte starts no well-formed character
RECURSIVE utf8_decode(_)
utf8_decode(bytes) ==
    IF bytes = <<>> THEN [ok |-> TRUE, text |-> <<>>]
    ELSE LET b == Head(bytes)
             n == IF b < 128 THEN 1
                  ELSE IF b \in 194..223 THEN 2
                  ELSE IF b \in 224..239 THEN 3
                  ELSE 0
             well_formed ==
                 /\ n > 0
                 /\ Len(bytes) >= n
                 /\ \A k \in 2..n : IsCont(bytes[k])
                 /\ b = 224 => bytes[2] >= 160      \* not overlong
                 /\ b = 237 => bytes[2] <= 159      \* not a surrogate
             cp == IF n = 1 THEN b
                   ELSE IF n = 2 THEN (b - 192) * 64 + (bytes[2] - 128)
                   ELSE (b - 224) * 4096 + (bytes[2] - 128) * 64 + (bytes[3] - 128)
         IN  IF ~well_formed THEN [ok |-> FALSE, text |-> <<>>]
             ELSE LET rest == utf8_decode(SubSeq(bytes, n + 1, Len(bytes)))
                  IN  [ok |-> rest.ok,
                       text |-> IF rest.ok THEN <<cp>> \o rest.text ELSE <<>>]

\* bytes.decode('latin-1'): every byte is the code point of the same number
latin1_decode(bytes) == [ok |-> TRUE, text |-> bytes]

\* the code points of bytes 0x80..0x9F in cp1252; 0 where the codec defines
\* no character (0x81, 0x8D, 0x8F, 0x90, 0x9D)
cp1252_table ==
    <<8364, 0, 8218, 402, 8222, 8230, 8224, 8225, 710, 8240, 352, 8249, 338, 0, 381, 0,
      0, 8216, 8217, 8220, 8221, 8226, 8211, 8212, 732, 8482, 353, 8250, 339, 0, 382, 376>>

\* bytes.decode('cp1252')
cp1252_decode(bytes) ==
    LET cp(b) == IF b \in 128..159 THEN cp1252_table[b - 127] ELSE b
    IN  IF \E k \in 1..Len(bytes) : cp(bytes[k]) = 0
           THEN [ok |-> FALSE, text |-> <<>>]
        ELSE [ok |-> TRUE, text |-> [k \in 1..Len(bytes) |-> cp(bytes[k])]]

decode(bytes, encoding) ==
    CASE encoding = "utf-8"   -> utf8_decode(bytes)
      [] encoding = "latin-1" -> latin1_decode(bytes)
      [] encoding = "cp1252"  -> cp1252_decode(bytes)

\* pd.read_csv(CSV_FILE, encoding=encoding), line 44: the file cannot be
\* opened (error "open"), its bytes do not decode, the decoded text is not a
\* table (error "parse"), or a frame with the file's header is returned
read_csv_encoded(file, encoding) ==
    IF file.error = "open" THEN [kind |-> "Exception"]
    ELSE IF ~decode(file.bytes, encoding).ok THEN [kind |-> "UnicodeDecodeError"]
    ELSE IF file.error = "parse" THEN [kind |-> "Exception"]
    ELSE [kind |-> "df", columns |-> file.columns,
          text |-> decode(file.bytes, encoding).text]

\* df.rename(columns={'Student Name': 'Name'}), lines 46-47
rename_student_name(columns) ==
    [j \in 1..Len(columns) |->
        IF columns[j] = "Student Name" THEN "Name" ELSE columns[j]]

\* the loop of read_student_data from encoding k on, lines 42-59, and the
\* return after it, lines 61-62
RECURSIVE try_encodings(_, _, _)
try_encodings(file, k, tried) ==
    IF k > Len(encodings)
       THEN [kind |-> "None", tried |-> tried, message |-> "Could not read"]
    ELSE LET r == read_csv_encoded(file, encodings[k])
             now == Append(tried, encodings[k])
         IN  IF r.kind = "UnicodeDecodeError" THEN try_encodings(file, k + 1, now)
             ELSE IF r.kind = "Exception"
                THEN [kind |-> "None", tried |-> now, message |-> "Error reading"]
             ELSE IF Count(rename_student_name(r.columns), "Name") = 0
                THEN [kind |-> "None", tried |-> now,
                      message |-> "must contain a 'Student Name' or 'Name' column"]
             ELSE [kind |-> "df", tried |-> now, message |-> "Read student records",
                   columns |-> rename_student_name(r.columns), text |-> r.text,
                   encoding |-> encodings[k]]

\* read_student_data(), lines 38-62
read_student_data(file) == try_encodings(file, 1, <<>>)

\* bytes of the files: "A", the two bytes of UTF-8 "e acute" (0xC3 0xA9),
\* 0x80 (the euro sign of cp1252) and 0x81 (no character in cp1252)
FileBytes == {65, 195, 169, 128, 129}
MaxFileLen == 3

\* the headers of the files
FileColumns ==
    { <<"Name">>, <<"Student Name">>, <<"Roll No">>, <<"Student Name", "Name">> }

\* the CSV files read_student_data is called on
StudentFiles ==
    { [kind |-> "file", bytes |-> b, columns |-> c, error |-> e] :
        b \in UNION { [1..n -> FileBytes] : n \in 0..MaxFileLen },
        c \in FileColumns, e \in {"none", "open", "parse"} }

\* one call of read_student_data
RD_Read ==
    /\ script = "read_student_data"
    /\ rd_pc = "call"
    /\ rd_out' = read_student_data(rd_in)
    /\ log' = Append(log, rd_out'.message)
    /\ rd_pc' = "returned"
    /\ UNCHANGED <<script, exit_code, exit_via, rd_in, plVars, phVars, pptVars, ceVars,
                   invVars, dsVars, shVars, bdVars, paVars, rerunVars>>

----------------------------------------------------------------------------
(* generate_certificates.py *)

\* student_ppt_csv.csv as generate_certificates finds it: missing, without a
\* 'Name' column, or with Name cells NaN / "A" / "B"
IsCertCsv(env, n) ==
    \/ env = [csv_exists |-> FALSE, has_name |-> FALSE, rows |-> <<>>]
    \/ \E k \in 0..n, has_name \in BOOLEAN :
          \E rs \in [1..k -> NameCells(FALSE)] :
              env = [csv_exists |-> TRUE, has_name |-> has_name, rows |-> rs]

\* create_certificate(student_data, output_path): whether it raises
\* (student_data['Name'].upper() on NaN, line 75, before c.save())
create_certificate_raises(name) == name.na

\* main, lines 116-126: output folder, fonts, pd.read_csv(INPUT_CSV)
CE_Main ==
    /\ script = "generate_certificates"
    /\ ce_pc = "main"
    /\ \/ /\ ~ce_env.csv_exists
          /\ log' = Append(log, "Error processing student data: No such file")
          /\ ce_pc' = "done"
          /\ NormalEnd
          /\ UNCHANGED ce_i
       \/ /\ ce_env.csv_exists
          /\ ce_i' = 1
          /\ ce_pc' = "loop"
          /\ UNCHANGED <<exit_code, exit_via, log>>
    /\ UNCHANGED <<script, ce_env, ce_files, notCE>>

\* main, lines 129-135: one iteration of the loop over df.iterrows()
CE_Row ==
    /\ script = "generate_certificates"
    /\ ce_pc = "loop"
    /\ ce_i <= Len(ce_env.rows)
    /\ \/ \* student['Name'] at line 130 raises KeyError, outside the inner try
          /\ ~ce_env.has_name
          /\ log' = Append(log, "Error processing student data: KeyError")
          /\ ce_pc' = "done"
          /\ NormalEnd
          /\ UNCHANGED <<ce_i, ce_files>>
       \/ /\ ce_env.has_name
          /\ create_certificate_raises(ce_env.rows[ce_i])
          /\ log' = Append(log, "Error creating certificate")
          /\ ce_i' = ce_i + 1
          /\ UNCHANGED <<exit_code, exit_via, ce_pc, ce_files>>
       \/ /\ ce_env.has_name
          /\ ~create_certificate_raises(ce_env.rows[ce_i])
          /\ ce_files' = ce_files \cup {ce_env.rows[ce_i].s}
          /\ log' = Append(log, "Created certificate")
          /\ ce_i' = ce_i + 1
          /\ UNCHANGED <<exit_code, exit_via, ce_pc>>
    /\ UNCHANGED <<script, ce_env, notCE>>

\* main, line 137: the closing message, and the end of the process
CE_Done ==
    /\ script = "generate_certificates"
    /\ ce_pc = "loop"
    /\ ce_i > Len(ce_env.rows)
    /\ log' = Append(log, "Certificate generation complete")
    /\ ce_pc' = "done"
    /\ NormalEnd
    /\ UNCHANGED <<script, ce_env, ce_i, ce_files, notCE>>

\* the script is started again after it has ended, on the same CSV; the
\* certificates of the earlier run stay in Generated_Certificates
CE_Rerun ==
    /\ script = "generate_certificates"
    /\ ce_pc = "done"
    /\ run < MaxRuns
    /\ run' = run + 1
    /\ first_run' = IF run = 1
                    THEN [files |-> ce_files, handled |-> 0, content |-> <<>>]
                    ELSE first_run
    /\ ce_pc' = "main"
    /\ ce_i' = 0
    /\ ce_files' = {}
    /\ exit_code' = -1
    /\ exit_via' = "none"
    /\ log' = <<>>
    /\ UNCHANGED <<script, ce_env, plVars, phVars, pptVars, invVars, dsVars,
                   shVars, bdVars, paVars, rdVars>>

NextCerts == CE_Main \/ CE_Row \/ CE_Done \/ CE_Rerun

\* generate_certificates.py is not the script being run
IdleCE ==
    /\ ce_pc = "idle"
    /\ ce_env = [csv_exists |-> FALSE, has_name |-> FALSE, rows |-> <<>>]
    /\ ce_i = 0
    /\ ce_files = {}

----------------------------------------------------------------------------
(* generate_invite_list.py *)

\* inviteList.csv: missing, or a header and rows.  Headers considered:
\*   "expected":    Member Name, Member Whatsapp Phone Number, # of People,
\*                  Registration ID
\*   "reordered":   Registration ID, Member Name, Member Whatsapp Phone
\*                  Number, # of People (the same columns, the ID first)
\*   "identifiers": Name, Phone, People, Registration ID
\*   "no_reg_id":   Member Name, Member Whatsapp Phone Number, # of People, ID
\* A row holds the cells of the four columns by what they mean.
InviteLayouts == {"expected", "reordered", "identifiers", "no_reg_id"}

InviteRows ==
    [name : {<<97, 32, 98>>, <<99, 32>>},       \* "a b", "c "
     phone : {<<57, 56>>, <<57, 57>>},          \* 98, 99
     people : {<<50>>},                         \* 2
     reg_id : 1..2]

NoInviteCsv == [csv_exists |-> FALSE, layout |-> "expected", rows |-> <<>>]

IsInviteCsv(env, n) ==
    \/ env = NoInviteCsv
    \/ \E k \in 0..n, layout \in InviteLayouts :
          \E rs \in [1..k -> InviteRows] :
              env = [csv_exists |-> TRUE, layout |-> layout, rows |-> rs]

\* the frame has a column named 'Registration ID'
has_reg_id(env) == env.layout # "no_reg_id"

\* itertuples names the fields _0 .. _3: every column name is renamed, none
\* being a valid identifier
positional_fields(env) == env.layout \in {"expected", "reordered", "no_reg_id"}

\* the cells of a row in column order: what row._0 .. row._3 are
tuple_fields(r, layout) ==
    IF layout = "reordered" THEN <<int_text(r.reg_id), r.name, r.phone, r.people>>
    ELSE <<r.name, r.phone, r.people, int_text(r.reg_id)>>

\* urllib.parse.quote_plus on ASCII text: letters, digits and _.-~ are kept,
\* a space becomes +, any other character %XX
HexDigit(d) == IF d < 10 THEN 48 + d ELSE 55 + d

QuoteChar(c) ==
    IF \/ c >= 48 /\ c <= 57
       \/ c >= 65 /\ c <= 90
       \/ c >= 97 /\ c <= 122
       \/ c \in {95, 46, 45, 126}
       THEN <<c>>
    ELSE IF c = 32 THEN <<43>>
    ELSE <<37, HexDigit(c \div 16), HexDigit(c % 16)>>

RECURSIVE quote_plus(_)
quote_plus(x) == IF x = <<>> THEN <<>> ELSE QuoteChar(Head(x)) \o quote_plus(Tail(x))

\* the message of lines 69-87; its fixed text is shortened to the line breaks
\* between the fields, which appear in the order name, phone, reg_id, people
message(name, phone, reg_id, num_people) ==
    name \o <<10>> \o phone \o <<10>> \o reg_id \o <<10>> \o num_people

\* lines 64-103: the <tr> appended for tuple `fields`, the i-th of the loop
invite_row(i, fields) ==
    LET name == strip(fields[1])
        phone == strip(fields[2])
        num_people == strip(fields[3])
        reg_id == strip(fields[4])
        encoded_message == quote_plus(message(name, phone, reg_id, num_people))
    IN  [No |-> i, name |-> name, reg_id |-> reg_id, people |-> num_people,
         whatsapp |-> [phone |-> phone, text |-> encoded_message],
         sms |-> [phone |-> phone, body |-> encoded_message]]

\* stable insertion of a row by Registration ID
RECURSIVE InsertByRegId(_, _)
InsertByRegId(r, sorted) ==
    IF sorted = <<>> THEN <<r>>
    ELSE IF r.reg_id <= Head(sorted).reg_id THEN <<r>> \o sorted
    ELSE <<Head(sorted)>> \o InsertByRegId(r, Tail(sorted))

\* df.sort_values(by="Registration ID")
RECURSIVE sort_by_reg_id(_)
sort_by_reg_id(rows) ==
    IF rows = <<>> THEN <<>>
    ELSE InsertByRegId(Head(rows), sort_by_reg_id(Tail(rows)))

\* main, lines 13-60: read the CSV, sort it, start the HTML
INV_Main ==
    /\ script = "generate_invite_list"
    /\ inv_pc = "main"
    /\ \/ \* pd.read_csv raises FileNotFoundError
          /\ ~inv_env.csv_exists
          /\ inv_pc' = "crashed"
          /\ Traceback
          /\ UNCHANGED <<inv_df, inv_i>>
       \/ \* sort_values(by="Registration ID") raises KeyError
          /\ inv_env.csv_exists
          /\ ~has_reg_id(inv_env)
          /\ inv_pc' = "crashed"
          /\ Traceback
          /\ UNCHANGED <<inv_df, inv_i>>
       \/ /\ inv_env.csv_exists
          /\ has_reg_id(inv_env)
          /\ inv_df' = sort_by_reg_id(inv_env.rows)
          /\ inv_i' = 1
          /\ inv_pc' = "loop"
          /\ UNCHANGED <<exit_code, exit_via>>
    /\ UNCHANGED <<script, log, inv_env, inv_html, inv_written, notINV>>

\* main, lines 63-103: one iteration of the loop over df.itertuples()
INV_Row ==
    /\ script = "generate_invite_list"
    /\ inv_pc = "loop"
    /\ inv_i <= Len(inv_df)
    /\ \/ \* row._0 raises AttributeError; nothing catches it
          /\ ~positional_fields(inv_env)
          /\ inv_pc' = "crashed"
          /\ Traceback
          /\ UNCHANGED <<inv_i, inv_html>>
       \/ /\ positional_fields(inv_env)
          /\ inv_html' = Append(inv_html,
                 invite_row(inv_i, tuple_fields(inv_df[inv_i], inv_env.layout)))
          /\ inv_i' = inv_i + 1
          /\ UNCHANGED <<exit_code, exit_via, inv_pc>>
    /\ UNCHANGED <<script, log, inv_env, inv_df, inv_written, notINV>>

\* main, lines 105-120: close the HTML and write the file
INV_Write ==
    /\ script = "generate_invite_list"
    /\ inv_pc = "loop"
    /\ inv_i > Len(inv_df)
    /\ inv_written' = TRUE
    /\ log' = Append(log, "HTML file successfully created")
    /\ inv_pc' = "done"
    /\ NormalEnd
    /\ UNCHANGED <<script, inv_env, inv_df, inv_i, inv_html, notINV>>

\* "./MaladUtsav_Registration_List.html" (output_html, line 115)
output_html ==
    <<77,97,108,97,100,85,116,115,97,118,95,82,101,103,105,115,116,114,97,116,
      105,111,110,95,76,105,115,116,46,104,116,109,108>>

\* the script is started again after it has ended or crashed, on the same CSV;
\* the page of the earlier run stays on disk
INV_Rerun ==
    /\ script = "generate_invite_list"
    /\ inv_pc \in {"done", "crashed"}
    /\ run < MaxRuns
    /\ run' = run + 1
    /\ first_run' = IF run = 1
                    THEN [files |-> IF inv_written THEN {output_html} ELSE {},
                          handled |-> 0,
                          content |-> inv_html]
                    ELSE first_run
    /\ inv_pc' = "main"
    /\ inv_df' = <<>>
    /\ inv_i' = 0
    /\ inv_html' = <<>>
    /\ inv_written' = FALSE
    /\ exit_code' = -1
    /\ exit_via' = "none"
    /\ log' = <<>>
    /\ UNCHANGED <<script, inv_env, plVars, phVars, pptVars, ceVars, dsVars,
                   shVars, bdVars, paVars, rdVars>>

NextInvite == INV_Main \/ INV_Row \/ INV_Write \/ INV_Rerun

\* generate_invite_list.py is not the script being run
IdleINV ==
    /\ inv_pc = "idle"
    /\ inv_env = NoInviteCsv
    /\ inv_df = <<>>
    /\ inv_i = 0
    /\ inv_html = <<>>
    /\ inv_written = FALSE

----------------------------------------------------------------------------
(* download_sheets.py *)

\* len(SHEETS) and len(FOLDERS)
NSheets == 3
NFolders == 2
\* download_subfolder calls of one download_folder: five batches and the
\* main folder
NSubfolders == 6

\* how one download_sheet call can go: requests.get raises (timeout, no
\* connection), raise_for_status raises (error status), the body is saved
\* and pd.read_csv raises on it, or all is well
SheetOutcomes == {"get_raises", "error_status", "not_csv", "ok"}

\* download_sheet with a second attempt after a failed request
download_sheet_retrying(k, o) ==
    [gets |-> IF o \in {"get_raises", "error_status"}
                 THEN <<[sheet |-> k, outcome |-> o], [sheet |-> k, outcome |-> o]>>
              ELSE <<[sheet |-> k, outcome |-> o]>>,
     written |-> o \in {"not_csv", "ok"},
     ret |-> o = "ok",
     messages |-> IF o = "ok" THEN <<"Successfully downloaded">>
                  ELSE <<"Failed to download">>]

\* download_sheet returning True as soon as the body has been saved
download_sheet_true_once_saved(k, o) ==
    [gets |-> <<[sheet |-> k, outcome |-> o]>>,
     written |-> o \in {"not_csv", "ok"},
     ret |-> o \in {"not_csv", "ok"},
     messages |-> IF o = "ok" THEN <<"Successfully downloaded">>
                  ELSE <<"Failed to download">>]

\* download_sheet(sheet_id, gid, output_file, sheet_name) for sheet k: the GET
\* requests issued, whether the output file was written, the value returned
\* and the messages printed
download_sheet(k, o) ==
    [gets |-> <<[sheet |-> k, outcome |-> o]>>,
     written |-> o \in {"not_csv", "ok"},
     ret |-> o = "ok",
     messages |-> IF o = "ok" THEN <<"Successfully downloaded">>
                  ELSE <<"Failed to download">>]

\* main, lines 154-166, one iteration of the sheet loop
DS_Sheet ==
    /\ script = "download_sheets"
    /\ ds_pc = "sheets"
    /\ ds_i <= NSheets
    /\ \E o \in SheetOutcomes :
          LET r == download_sheet(ds_i, o)
          IN  /\ ds_gets' = ds_gets \o r.gets
              /\ ds_files' = IF r.written THEN ds_files \cup {ds_i} ELSE ds_files
              /\ sheets_success' = IF r.ret THEN sheets_success + 1 ELSE sheets_success
              /\ log' = log \o r.messages
              /\ ds_calls' = Append(ds_calls,
                                [kind |-> "sheet", k |-> ds_i, outcome |-> o,
                                 ret |-> r.ret])
    /\ ds_i' = IF ds_i = NSheets THEN 1 ELSE ds_i + 1
    /\ ds_pc' = IF ds_i = NSheets THEN "folders" ELSE "sheets"
    /\ UNCHANGED <<script, exit_code, exit_via, ds_gdown, folders_success, notDS>>

\* main, lines 168-177, one iteration of the folder loop: download_folder
\* either fails in os.makedirs, or calls download_subfolder NSubfolders times;
\* got[b] is the number of files (0 or 1) batch b returned
DS_Folder ==
    /\ script = "download_sheets"
    /\ ds_pc = "folders"
    /\ ds_i <= NFolders
    /\ \/ \* os.makedirs raises: caught at line 148
          /\ log' = Append(log, "Failed to download folder")
          /\ ds_calls' = Append(ds_calls,
                            [kind |-> "folder", k |-> ds_i, outcome |-> "makedirs_raises",
                             ret |-> FALSE])
          /\ UNCHANGED <<ds_gdown, folders_success>>
       \/ \E got \in [1..NSubfolders -> 0..1] :
             LET total_files == got[1] + got[2] + got[3] + got[4] + got[5] + got[6]
             IN  /\ ds_gdown' = ds_gdown + NSubfolders
                 /\ folders_success' =
                       IF total_files > 0 THEN folders_success + 1 ELSE folders_success
                 /\ ds_calls' = Append(ds_calls,
                                   [kind |-> "folder", k |-> ds_i,
                                    outcome |-> IF total_files > 0 THEN "files"
                                                ELSE "no_files",
                                    ret |-> total_files > 0])
                 /\ log' = Append(log, IF total_files > 0
                                          THEN "Successfully downloaded total files"
                                       ELSE "No files were downloaded")
    /\ ds_i' = ds_i + 1
    /\ ds_pc' = IF ds_i = NFolders THEN "summary" ELSE "folders"
    /\ UNCHANGED <<script, exit_code, exit_via, ds_gets, ds_files, sheets_success, notDS>>

\* main, lines 179-181, and the end of the process
DS_Summary ==
    /\ script = "download_sheets"
    /\ ds_pc = "summary"
    /\ log' = Append(log, "Download Summary")
    /\ ds_pc' = "done"
    /\ NormalEnd
    /\ UNCHANGED <<script, ds_i, ds_gets, ds_files, sheets_success, ds_gdown, ds_calls,
                   folders_success, notDS>>

NextDownload == DS_Sheet \/ DS_Folder \/ DS_Summary

\* download_sheets.py is not the script being run
IdleDS ==
    /\ ds_pc = "idle"
    /\ ds_i = 0
    /\ ds_gets = <<>>
    /\ ds_files = {}
    /\ sheets_success = 0
    /\ ds_gdown = 0
    /\ ds_calls = <<>>
    /\ folders_success = 0

----------------------------------------------------------------------------
(* generate_searchable_html.py *)

t_No    == <<78,111>>                \* "No"
t_Name  == <<78,97,109,101>>         \* "Name"
t_NameS == <<32,78,97,109,101>>      \* " Name"
t_City  == <<67,105,116,121>>        \* "City"
t_Amt   == <<65,109,116>>            \* "Amt"

\* the CSV files considered: header, dtype of the row Series df.iterrows()
\* yields ("float64" when every column is numeric and one is float, else
\* "object"), and cells
SearchHeaders ==
    { <<t_Name, t_City>>, <<t_NameS, t_Name>>, <<t_No, t_Name>>, <<t_Amt>> }

TextCells == {NaN, Str(<<97>>), Str(<<65, 40>>), Str(<<97, 38, 98>>)} \* NaN, "a", "A(", "a&b"
FloatCells == {NaN, Str(<<49, 46, 53>>)}             \* NaN, "1.5"

NoCsv == [exists |-> FALSE, columns |-> <<>>, dtype |-> "object", rows |-> <<>>]

IsSearchCsv(csv, n) ==
    \/ csv = NoCsv
    \/ \E columns \in SearchHeaders, k \in 0..n :
          LET dtype == IF columns = <<t_Amt>> THEN "float64" ELSE "object"
              cells == IF dtype = "float64" THEN FloatCells ELSE TextCells
          IN  \E rs \in [1..k -> [1..Len(columns) -> cells]] :
                 csv = [exists |-> TRUE, columns |-> columns, dtype |-> dtype,
                        rows |-> rs]

\* df.columns = [c.strip() for c in df.columns]
strip_columns(columns) == [j \in 1..Len(columns) |-> strip(columns[j])]

\* text of a Series: r[c] when label c names several columns
RECURSIVE series_lines(_, _, _, _)
series_lines(columns, row, label, j) ==
    IF j > Len(columns) THEN <<>>
    ELSE (IF columns[j] = label
             THEN label \o <<32, 32, 32, 32>> \o astype_str(row[j]) \o <<10>>
          ELSE <<>>)
         \o series_lines(columns, row, label, j + 1)

\* "Name: <index>, dtype: object"
series_text(columns, row, label, index) ==
    series_lines(columns, row, label, 1)
       \o <<78,97,109,101,58,32>> \o int_text(index)
       \o <<44,32,100,116,121,112,101,58,32,111,98,106,101,99,116>>

\* f"<td>{r[c]}</td>" for column j of row i of the frame with the 'No' column
\* in front (columns: the stripped names of the CSV columns)
td_text(csv, columns, i, j) ==
    IF j = 1
       THEN (IF csv.dtype = "float64" THEN float_text(i) ELSE int_text(i))
    ELSE IF Count(columns, columns[j - 1]) > 1
       THEN series_text(columns, csv.rows[i], columns[j - 1], i - 1)
    ELSE astype_str(csv.rows[i][j - 1])

\* generate_html(csv_path, output_html), lines 18-26 and 165-166: df.insert
\* raises ValueError when a column is already named "No"
generate_html(csv) ==
    LET columns == strip_columns(csv.columns)
    IN  IF \E j \in 1..Len(columns) : columns[j] = t_No
           THEN [raised |-> TRUE, head |-> <<>>, rows |-> <<>>]
        ELSE [raised |-> FALSE,
              head |-> <<t_No>> \o columns,
              rows |-> [i \in 1..Len(csv.rows) |->
                          [j \in 1..(Len(columns) + 1) |-> td_text(csv, columns, i, j)]]]

NoPage == [raised |-> FALSE, head |-> <<>>, rows |-> <<>>]

\* the entities escapeHtml writes, and the tags highlightText writes
e_amp  == <<38,97,109,112,59>>           \* "&amp;"
e_lt   == <<38,108,116,59>>              \* "&lt;"
e_gt   == <<38,103,116,59>>              \* "&gt;"
e_quot == <<38,113,117,111,116,59>>      \* "&quot;"
e_apos == <<38,35,48,51,57,59>>          \* "&#039;"
mark_open  == <<60,109,97,114,107,62>>   \* "<mark>"
mark_close == <<60,47,109,97,114,107,62>> \* "</mark>"

\* text starts with prefix
startswith(text, prefix) ==
    Len(prefix) <= Len(text) /\ SubSeq(text, 1, Len(prefix)) = prefix

\* escapeHtml(text), lines 109-113
RECURSIVE escapeHtml(_)
escapeHtml(text) ==
    IF \A i \in 1..Len(text) : text[i] \notin {38, 60, 62, 34, 39} THEN text
    ELSE (CASE Head(text) = 38 -> e_amp
            [] Head(text) = 60 -> e_lt
            [] Head(text) = 62 -> e_gt
            [] Head(text) = 34 -> e_quot
            [] Head(text) = 39 -> e_apos
            [] OTHER -> <<Head(text)>>) \o escapeHtml(Tail(text))

\* html.replace(new RegExp('(' + term + ')', 'gi'), '<mark>$1</mark>') for a
\* term of letters and digits: every occurrence of term in html, ignoring
\* case, from left to right, is wrapped in <mark> tags
RECURSIVE replace_with_mark(_, _)
replace_with_mark(html, term) ==
    IF Len(html) < Len(term) \/ term = <<>> THEN html
    ELSE IF LowerChar(Head(html)) = LowerChar(Head(term))
            /\ lower(SubSeq(html, 1, Len(term))) = lower(term)
       THEN mark_open \o SubSeq(html, 1, Len(term)) \o mark_close
               \o replace_with_mark(SubSeq(html, Len(term) + 1, Len(html)), term)
    ELSE <<Head(html)>> \o replace_with_mark(Tail(html), term)

\* highlightText(text, term), lines 115-119, when the RegExp compiles: the
\* replacement runs over the escaped text
highlightText(text, term) ==
    IF term = <<>> THEN escapeHtml(text)
    ELSE replace_with_mark(escapeHtml(text), term)

\* the first token of html as the browser reads it: a <mark> tag (no text),
\* one of the five entities (its character), or one character ("&" included
\* when it starts no entity)
first_token(html) ==
    CASE Head(html) \notin {38, 60}   -> [len |-> 1, text |-> <<Head(html)>>]
      [] startswith(html, mark_open)  -> [len |-> Len(mark_open),  text |-> <<>>]
      [] startswith(html, mark_close) -> [len |-> Len(mark_close), text |-> <<>>]
      [] startswith(html, e_amp)      -> [len |-> Len(e_amp),      text |-> <<38>>]
      [] startswith(html, e_lt)       -> [len |-> Len(e_lt),       text |-> <<60>>]
      [] startswith(html, e_gt)       -> [len |-> Len(e_gt),       text |-> <<62>>]
      [] startswith(html, e_quot)     -> [len |-> Len(e_quot),     text |-> <<34>>]
      [] startswith(html, e_apos)     -> [len |-> Len(e_apos),     text |-> <<39>>]
      [] OTHER                        -> [len |-> 1, text |-> <<Head(html)>>]

\* td.textContent after td.innerHTML = html, for html made of text, the five
\* entities above and <mark> tags
RECURSIVE text_content(_)
text_content(html) ==
    IF \A i \in 1..Len(html) : html[i] \notin {38, 60} THEN html
    ELSE LET token == first_token(html)
         IN  token.text \o text_content(SubSeq(html, token.len + 1, Len(html)))

\* the text of the cells of the page as the browser parses "<td>...</td>"
\* (line 25 writes the cell values into the HTML as they are)
page_cells(rows) ==
    [i \in 1..Len(rows) |-> [j \in 1..Len(rows[i]) |-> text_content(rows[i][j])]]

\* the script: parse the arguments, generate_html, lines 16-188
SH_Generate ==
    /\ script = "generate_searchable_html"
    /\ sh_pc = "main"
    /\ \/ \* pd.read_csv raises FileNotFoundError
          /\ ~sh_in.exists
          /\ sh_pc' = "crashed"
          /\ Traceback
          /\ UNCHANGED <<log, sh_html, dom_display, dom_cells>>
       \/ /\ sh_in.exists
          /\ generate_html(sh_in).raised
          /\ sh_pc' = "crashed"
          /\ Traceback
          /\ UNCHANGED <<log, sh_html, dom_display, dom_cells>>
       \/ /\ sh_in.exists
          /\ ~generate_html(sh_in).raised
          /\ sh_html' = generate_html(sh_in)
          /\ dom_display' = [k \in 1..Len(sh_in.rows) |-> TRUE]
          /\ dom_cells' = page_cells(generate_html(sh_in).rows)
          /\ log' = Append(log, "HTML generated successfully")
          /\ sh_pc' = "done"
          /\ NormalEnd
    /\ UNCHANGED <<script, sh_in, dom_notice, dom_filter, dom_threw, dom_n, notSH>>

\* String.prototype.includes
includes(text, sub) ==
    \E k \in 0..(Len(text) - Len(sub)) : SubSeq(text, k + 1, k + Len(sub)) = sub

\* nesting depth of the parentheses after reading pattern, -1 once a ")"
\* closes nothing
RECURSIVE paren_depth(_, _)
paren_depth(pattern, depth) ==
    IF depth < 0 \/ pattern = <<>> THEN depth
    ELSE IF Head(pattern) = 40 THEN paren_depth(Tail(pattern), depth + 1)
    ELSE IF Head(pattern) = 41 THEN paren_depth(Tail(pattern), depth - 1)
    ELSE paren_depth(Tail(pattern), depth)

\* new RegExp('(' + term + ')', 'gi') does not throw SyntaxError; for terms of
\* letters, digits, spaces and parentheses: the parentheses are balanced
regexp_compiles(term) == paren_depth(<<40>> \o term \o <<41>>, 0) = 0

\* a cell of the row matches: filter && original.toLowerCase().includes(filter)
cell_matches(text, filter) == filter # <<>> /\ includes(lower(text), filter)

\* the text of a cell after lines 131-137: td.innerHTML is set to the
\* highlighted or to the escaped text, and the browser parses it
cell_after(text, filter) ==
    IF cell_matches(text, filter) THEN text_content(highlightText(text, filter))
    ELSE text_content(escapeHtml(text))

\* rows.forEach of searchTable from row k on: the cell texts and displays
\* afterwards, whether a row matched, and whether highlightText threw (which
\* ends searchTable; the cells before the one that threw were rewritten with
\* their escaped text)
RECURSIVE search_rows(_, _, _, _)
search_rows(k, rows, display, filter) ==
    IF k > Len(rows)
       THEN [rows |-> rows, display |-> display, found |-> FALSE, threw |-> FALSE]
    ELSE LET matchFound == \E j \in 1..Len(rows[k]) : cell_matches(rows[k][j], filter)
         IN  IF matchFound /\ ~regexp_compiles(filter)
                THEN [rows |-> rows, display |-> display, found |-> FALSE,
                      threw |-> TRUE]
             ELSE LET after == [j \in 1..Len(rows[k]) |-> cell_after(rows[k][j], filter)]
                      rest == search_rows(k + 1, [rows EXCEPT ![k] = after],
                                 [display EXCEPT ![k] = matchFound \/ filter = <<>>],
                                 filter)
                  IN  [rows |-> rest.rows, display |-> rest.display,
                       found |-> matchFound \/ rest.found, threw |-> rest.threw]

\* searchTable() with `value` in the search input, lines 121-144
searchTable(rows, display, notice, value) ==
    LET filter == lower(strip(value))
        r == search_rows(1, rows, display, filter)
    IN  [rows |-> r.rows,
         display |-> r.display,
         notice |-> IF r.threw THEN notice ELSE ~(r.found \/ filter = <<>>),
         threw |-> r.threw]

\* what the user types into the search box
SearchInputs ==
    { <<>>, <<32>>, <<97>>, <<65>>, <<32, 97, 32>>, <<40>>, <<97, 40>>, <<98>>, <<49>> }

\* an input event on the search box of the written page (oninput, line 162)
SH_Search ==
    /\ script = "generate_searchable_html"
    /\ sh_pc = "done"
    /\ dom_n < MaxSearches
    /\ \E value \in SearchInputs :
          LET r == searchTable(dom_cells, dom_display, dom_notice, value)
          IN  /\ dom_cells' = r.rows
              /\ dom_display' = r.display
              /\ dom_notice' = r.notice
              /\ dom_threw' = r.threw
              /\ dom_filter' = value
    /\ dom_n' = dom_n + 1
    /\ UNCHANGED <<script, exit_code, exit_via, log, sh_pc, sh_in, sh_html, notSH>>

NextSearch == SH_Generate \/ SH_Search

\* generate_searchable_html.py is not the script being run
IdleSH ==
    /\ sh_pc = "idle"
    /\ sh_in = NoCsv
    /\ sh_html = NoPage
    /\ dom_display = <<>>
    /\ dom_cells = <<>>
    /\ dom_notice = FALSE
    /\ dom_filter = <<>>
    /\ dom_threw = FALSE
    /\ dom_n = 0

----------------------------------------------------------------------------
(* generate_parentlist_html.py : main *)

NoDf == [columns |-> <<>>, rows |-> <<>>]

\* the command line and the environment: each of --csv-file, --sheet-id,
\* --gid, SHEET_ID and SHEET_GID is absent ("None"), given as the empty
\* string, or given with a value that tells where it came from
ParentArgs ==
    [csv_file : {"None", "", "list.csv"},
     sheet_id_flag : {"None", "", "flag"}, sheet_id_env : {"None", "", "env"},
     gid_flag : {"None", "", "flag"}, gid_env : {"None", "", "env"}]

NoArgs ==
    [csv_file |-> "None", sheet_id_flag |-> "None", sheet_id_env |-> "None",
     gid_flag |-> "None", gid_env |-> "None"]

\* the truth value Python gives None or a str in `if v` / `not v`
truthy(v) == v \notin {"None", ""}

\* sheet_id with the environment variable asked first
sheet_id_env_first(a) == IF truthy(a.sheet_id_env) THEN a.sheet_id_env ELSE a.sheet_id_flag

\* sheet_id = args.sheet_id if args.sheet_id else os.environ.get('SHEET_ID')
sheet_id(a) == IF truthy(a.sheet_id_flag) THEN a.sheet_id_flag ELSE a.sheet_id_env
\* gid = args.gid if args.gid else os.environ.get('SHEET_GID')
gid(a) == IF truthy(a.gid_flag) THEN a.gid_flag ELSE a.gid_env

\* main, lines 238-274: parse the arguments and load the DataFrame
PL_Load ==
    /\ script = "generate_parentlist_html"
    /\ pl_pc = "main"
    /\ \/ /\ truthy(pl_args.csv_file)
          /\ \/ \* the path does not exist
                /\ SysExit(1)
                /\ log' = Append(log, "CSV file not found")
                /\ pl_pc' = "exit"
                /\ UNCHANGED <<pl_in, pl_df, pl_requests>>
             \/ \* pd.read_csv raises
                /\ SysExit(2)
                /\ log' = Append(log, "Failed to read local CSV file")
                /\ pl_pc' = "exit"
                /\ UNCHANGED <<pl_in, pl_df, pl_requests>>
             \/ /\ IsTable(pl_in', MaxLoadRows)
                /\ pl_df' = pl_in'
                /\ pl_pc' = "normalize"
                /\ log' = Append(log, "Reading local CSV file")
                /\ UNCHANGED <<exit_code, exit_via, pl_requests>>
       \/ /\ ~truthy(pl_args.csv_file)
          /\ \/ /\ ~truthy(sheet_id(pl_args)) \/ ~truthy(gid(pl_args))
                /\ SysExit(1)
                /\ log' = Append(log, "Sheet ID and gid are required")
                /\ pl_pc' = "exit"
                /\ UNCHANGED <<pl_in, pl_df, pl_requests>>
             \/ /\ truthy(sheet_id(pl_args)) /\ truthy(gid(pl_args))
                /\ pl_requests' = Append(pl_requests,
                       [sheet_id |-> sheet_id(pl_args), gid |-> gid(pl_args)])
                /\ \/ \* fetch_sheet_csv raises
                      /\ SysExit(2)
                      /\ log' = Append(log, "Failed to download the sheet as CSV")
                      /\ pl_pc' = "exit"
                      /\ UNCHANGED <<pl_in, pl_df>>
                   \/ /\ IsTable(pl_in', MaxLoadRows)
                      /\ pl_df' = pl_in'
                      /\ pl_pc' = "normalize"
                      /\ log' = Append(log, "Downloading CSV")
                      /\ UNCHANGED <<exit_code, exit_via>>
    /\ UNCHANGED <<script, pl_args, pl_html, pl_files, notPL>>

\* main, line 275: df = normalize_and_sort(df)
PL_Normalize ==
    /\ script = "generate_parentlist_html"
    /\ pl_pc = "normalize"
    /\ pl_df' = [columns |-> <<"No", "Parent Name", "Student Name", "Submitted On">>,
                 rows |-> normalize_and_sort(pl_df)]
    /\ pl_pc' = "write_includes"
    /\ UNCHANGED <<script, exit_code, exit_via, log, pl_args, pl_in, pl_html,
                   pl_files, pl_requests, notPL>>

\* a main that leaves through sys.exit after write_includes has written
PL_WriteIncludes_then_exit ==
    /\ script = "generate_parentlist_html"
    /\ pl_pc = "write_includes"
    /\ pl_files' = pl_files \cup {"includes/header.html", "includes/footer.html"}
    /\ log' = Append(log, "Wrote include fragments")
    /\ pl_pc' = "exit"
    /\ SysExit(2)
    /\ UNCHANGED <<script, pl_args, pl_in, pl_df, pl_html, pl_requests, notPL>>

\* main, lines 277-279: write_includes(includes_dir, updated_str)
PL_WriteIncludes ==
    /\ script = "generate_parentlist_html"
    /\ pl_pc = "write_includes"
    /\ pl_files' = pl_files \cup {"includes/header.html", "includes/footer.html"}
    /\ log' = Append(log, "Wrote include fragments")
    /\ pl_pc' = "build_main_html"
    /\ UNCHANGED <<script, exit_code, exit_via, pl_args, pl_in, pl_df, pl_html,
                   pl_requests, notPL>>

\* main, lines 280-282: build_main_html(df, ...) and the end of main
PL_BuildMainHtml ==
    /\ script = "generate_parentlist_html"
    /\ pl_pc = "build_main_html"
    /\ pl_html' = build_rows(pl_df.rows)
    /\ pl_files' = pl_files \cup {"ParentList_Marksheet.html"}
    /\ log' = Append(log, "Done")
    /\ pl_pc' = "done"
    /\ NormalEnd
    /\ UNCHANGED <<script, pl_args, pl_in, pl_df, pl_requests, notPL>>

NextParent == PL_Load \/ PL_Normalize \/ PL_WriteIncludes \/ PL_BuildMainHtml

\* generate_parentlist_html.py is not the script being run
IdlePL ==
    /\ pl_pc = "idle"
    /\ pl_args = NoArgs
    /\ pl_in = NoDf
    /\ pl_df = NoDf
    /\ pl_html = <<>>
    /\ pl_files = {}
    /\ pl_requests = <<>>

\* a run of generate_parentlist_html.py
InitParent ==
    /\ script = "generate_parentlist_html"
    /\ InitCommon
    /\ pl_pc = "main"
    /\ pl_args \in ParentArgs
    /\ pl_in = NoDf
    /\ pl_df = NoDf
    /\ pl_html = <<>>
    /\ pl_files = {}
    /\ pl_requests = <<>>
    /\ IdlePH /\ IdlePPT /\ IdleCE /\ IdleINV /\ IdleDS /\ IdleSH /\ IdleBD
    /\ IdlePA /\ IdleRD

\* normalize_and_sort and build_main_html on every table of up to MaxRows rows:
\* main after a local CSV file has been read (line 259)
InitNormalize ==
    /\ script = "generate_parentlist_html"
    /\ InitCommon
    /\ pl_pc = "normalize"
    /\ pl_args = [NoArgs EXCEPT !.csv_file = "list.csv"]
    /\ IsTable(pl_in, MaxRows)
    /\ pl_df = pl_in
    /\ pl_html = <<>>
    /\ pl_files = {}
    /\ pl_requests = <<>>
    /\ IdlePH /\ IdlePPT /\ IdleCE /\ IdleINV /\ IdleDS /\ IdleSH /\ IdleBD
    /\ IdlePA /\ IdleRD

NextNormalize == PL_Normalize \/ PL_WriteIncludes \/ PL_BuildMainHtml

SpecNormalize == InitNormalize /\ [][NextNormalize]_vars

SpecParent == InitParent /\ [][NextParent]_vars

\* normalize_and_sort and build_main_html on tables with every kind of header
InitColumns ==
    /\ script = "generate_parentlist_html"
    /\ InitCommon
    /\ pl_pc = "normalize"
    /\ pl_args = [NoArgs EXCEPT !.csv_file = "list.csv"]
    /\ IsMarkedTable(pl_in, MaxColRows)
    /\ pl_df = pl_in
    /\ pl_html = <<>>
    /\ pl_files = {}
    /\ pl_requests = <<>>
    /\ IdlePH /\ IdlePPT /\ IdleCE /\ IdleINV /\ IdleDS /\ IdleSH /\ IdleBD
    /\ IdlePA /\ IdleRD

SpecColumns == InitColumns /\ [][NextNormalize]_vars

\* a run of process_photos.py, the merge conflict resolved to either side
InitPhotos ==
    /\ script = "process_photos"
    /\ InitCommon
    /\ ph_pc = "main"
    /\ ph_side \in {"HEAD", "theirs"}
    /\ IsListing(ph_files, MaxFiles)
    /\ ph_i = 0
    /\ ph_written = {}
    /\ ph_ret = <<>>
    /\ success_count = 0
    /\ error_count = 0
    /\ IdlePL /\ IdlePPT /\ IdleCE /\ IdleINV /\ IdleDS /\ IdleSH /\ IdleBD
    /\ IdlePA /\ IdleRD

SpecPhotos == InitPhotos /\ [][NextPhotos]_vars

\* runs of student_ppt.py
InitPpt ==
    /\ script = "student_ppt"
    /\ InitCommon
    /\ fs_clock = 0
    /\ fs_pptx = <<>>
    /\ \/ ppt_env = [csv_exists |-> FALSE, photos_exists |-> TRUE, table |-> NoStudents]
       \/ ppt_env = [csv_exists |-> TRUE, photos_exists |-> FALSE, table |-> NoStudents]
       \/ \E k \in 0..MaxStudents, numeric \in BOOLEAN :
             \E rs \in [1..k -> NameCells(numeric)] :
                 ppt_env = [csv_exists |-> TRUE, photos_exists |-> TRUE,
                            table |-> StudentTable(numeric, rs)]
    /\ ppt_run = 1
    /\ ppt_pc = "main"
    /\ ppt_df = NoStudents
    /\ ppt_i = 0
    /\ ppt_slides = <<>>
    /\ ppt_success_count = 0
    /\ ppt_result = "none"
    /\ fs_pdf = {}
    /\ pdf_tried = <<>>
    /\ pdf_ret = "not called"
    /\ IdlePL /\ IdlePH /\ IdleCE /\ IdleINV /\ IdleDS /\ IdleSH /\ IdleBD
    /\ IdlePA /\ IdleRD

SpecPpt == InitPpt /\ [][NextPpt]_vars

\* a run of generate_certificates.py
InitCerts ==
    /\ script = "generate_certificates"
    /\ InitCommon
    /\ ce_pc = "main"
    /\ IsCertCsv(ce_env, MaxStudents)
    /\ ce_i = 0
    /\ ce_files = {}
    /\ IdlePL /\ IdlePH /\ IdlePPT /\ IdleINV /\ IdleDS /\ IdleSH /\ IdleBD
    /\ IdlePA /\ IdleRD

\* a run of generate_invite_list.py
InitInvite ==
    /\ script = "generate_invite_list"
    /\ InitCommon
    /\ inv_pc = "main"
    /\ IsInviteCsv(inv_env, MaxInvites)
    /\ inv_df = <<>>
    /\ inv_i = 0
    /\ inv_html = <<>>
    /\ inv_written = FALSE
    /\ IdlePL /\ IdlePH /\ IdlePPT /\ IdleCE /\ IdleDS /\ IdleSH /\ IdleBD
    /\ IdlePA /\ IdleRD

SpecInvite == InitInvite /\ [][NextInvite]_vars

\* a run of download_sheets.py
InitDownload ==
    /\ script = "download_sheets"
    /\ InitCommon
    /\ ds_pc = "sheets"
    /\ ds_i = 1
    /\ ds_gets = <<>>
    /\ ds_files = {}
    /\ sheets_success = 0
    /\ ds_gdown = 0
    /\ ds_calls = <<>>
    /\ folders_success = 0
    /\ IdlePL /\ IdlePH /\ IdlePPT /\ IdleCE /\ IdleINV /\ IdleSH /\ IdleBD
    /\ IdlePA /\ IdleRD

\* a run of generate_searchable_html.py and the use of the page it writes
InitSearch ==
    /\ script = "generate_searchable_html"
    /\ InitCommon
    /\ sh_pc = "main"
    /\ IsSearchCsv(sh_in, MaxSearchRows)
    /\ sh_html = NoPage
    /\ dom_display = <<>>
    /\ dom_cells = <<>>
    /\ dom_notice = FALSE
    /\ dom_filter = <<>>
    /\ dom_threw = FALSE
    /\ dom_n = 0
    /\ IdlePL /\ IdlePH /\ IdlePPT /\ IdleCE /\ IdleINV /\ IdleDS /\ IdleBD
    /\ IdlePA /\ IdleRD

SpecSearch == InitSearch /\ [][NextSearch]_vars

\* the scripts that fetch over HTTP
InitNet == InitParent \/ InitDownload
NextNet == NextParent \/ NextDownload
SpecNet == InitNet /\ [][NextNet]_vars

\* add_stationery_border is called on a photo, and one pixel is looked at
InitBorder ==
    /\ script = "add_stationery_border"
    /\ InitCommon
    /\ bd_pc = "call"
    /\ \E size \in BorderSizes :
          \E x \in ProbeCoords(add_border(size, "theirs")[1]),
             y \in ProbeCoords(add_border(size, "theirs")[2]) :
              bd_in = [size |-> size, x |-> x, y |-> y]
    /\ bd_out = NoPixel
    /\ IdlePL /\ IdlePH /\ IdlePPT /\ IdleCE /\ IdleINV /\ IdleDS /\ IdleSH
    /\ IdlePA /\ IdleRD

SpecBorder == InitBorder /\ [][NextBorder]_vars

SpecCerts == InitCerts /\ [][NextCerts]_vars

\* process_image reaches the scaling step with an image and a face box
InitPlace ==
    /\ script = "process_image"
    /\ InitCommon
    /\ pa_pc = "face"
    /\ IsFaceInput(pa_in)
    /\ pa_out = [kind |-> "none"]
    /\ IdlePL /\ IdlePH /\ IdlePPT /\ IdleCE /\ IdleINV /\ IdleDS /\ IdleSH /\ IdleBD
    /\ IdleRD

SpecPlace == InitPlace /\ [][PA_Place]_vars

\* process_image reaches the paste loops with a resized image and an offset
InitPaste ==
    /\ script = "process_image"
    /\ InitCommon
    /\ pa_pc = "paste"
    /\ pa_in \in PasteInputs
    /\ pa_out = [kind |-> "none"]
    /\ IdlePL /\ IdlePH /\ IdlePPT /\ IdleCE /\ IdleINV /\ IdleDS /\ IdleSH /\ IdleBD
    /\ IdleRD

\* read_student_data is called on a CSV file
InitRead ==
    /\ script = "read_student_data"
    /\ InitCommon
    /\ rd_pc = "call"
    /\ rd_in \in StudentFiles
    /\ rd_out = [kind |-> "none"]
    /\ IdlePL /\ IdlePH /\ IdlePPT /\ IdleCE /\ IdleINV /\ IdleDS /\ IdleSH /\ IdleBD
    /\ IdlePA

SpecRead == InitRead /\ [][RD_Read]_vars

SpecPaste == InitPaste /\ [][PA_Paste]_vars

\* the scripts that write to fixed output paths, run and run again
InitRerun == InitPhotos \/ InitCerts \/ InitInvite
NextRerun == NextPhotos \/ NextCerts \/ NextInvite
SpecRerun == InitRerun /\ [][NextRerun]_vars

\* any one of the scripts is run
Init == InitParent \/ InitPhotos \/ InitPpt \/ InitCerts \/ InitInvite
           \/ InitDownload \/ InitSearch

Next == NextParent \/ NextPhotos \/ NextPpt \/ NextCerts \/ NextInvite
           \/ NextDownload \/ NextSearch

Spec == Init /\ [][Next]_vars

----------------------------------------------------------------------------
(* Properties of generate_parentlist_html.py *)

PL_Normalized == pl_pc \in {"write_includes", "build_main_html", "done"}

\* the text a <tr> shows for a row of the canonical table
Rendered(r) == <<esc(r.p), esc(r.s), esc(r.t)>>

\* positions of canonical table `canon` whose row lines 75-77 keep
SurvivingRows(canon) == {k \in 1..Len(canon) : Survives(canon[k])}

\* C2: the generated table holds exactly the rows that survive blank-row
\* removal, each once (the <tr> rows and the surviving rows are equal as
\* multisets), and the No column counts 1..N in output order, in the frame and
\* in the HTML.
C2_ExactlySurvivingRows ==
    LET canon == Canonical(pl_in)
        kept == SurvivingRows(canon)
    IN  /\ PL_Normalized =>
              /\ Len(pl_df.rows) = Cardinality(kept)
              /\ \A i \in 1..Len(pl_df.rows) : pl_df.rows[i].No = i
        /\ pl_pc = "done" =>
              /\ Len(pl_html) = Cardinality(kept)
              /\ \A i \in 1..Len(pl_html) :
                    /\ pl_html[i][1] = i
                    /\ Cardinality({j \in 1..Len(pl_html) :
                                       Tail(pl_html[j]) = Tail(pl_html[i])})
                       = Cardinality({k \in kept : Rendered(canon[k]) = Tail(pl_html[i])})

\* C2 witness: a finished run in which a blank row was removed, two rows
\* survived and sorting moved the second surviving row in front of the first.
C2_Witness ==
    /\ pl_pc = "done"
    /\ Len(pl_html) = 2
    /\ Len(pl_in.rows) = 3
    /\ pl_html[1] # pl_html[2]
    /\ LET canon == Canonical(pl_in)
       IN  \E a, b \in SurvivingRows(canon) :
              /\ a < b
              /\ Rendered(canon[b]) = Tail(pl_html[1])
              /\ Rendered(canon[a]) = Tail(pl_html[2])

\* a cell with no value in the CSV, or only whitespace
EmptyCell(c) == c.na \/ strip(c.s) = <<>>

\* a blank row: Parent Name and Student Name both empty
BlankRow(r) == EmptyCell(r.p) /\ EmptyCell(r.s)

\* C3: normalize_and_sort removes a row if and only if it is blank (Parent Name
\* and Student Name both without value or only whitespace): no blank row
\* reaches the output, timestamp or not, and every non-blank row is kept.
C3_RemovedIffBlank ==
    PL_Normalized =>
        /\ \A i \in 1..Len(pl_df.rows) : ~BlankRow(pl_df.rows[i])
        /\ LET canon == Canonical(pl_in)
           IN  Len(pl_df.rows)
               = Cardinality({k \in 1..Len(canon) : ~BlankRow(canon[k])})

----------------------------------------------------------------------------
(* Properties of process_photos.py *)

\* C1: every file process_image writes has exactly the configured passport
\* dimensions PASSPORT_WIDTH x PASSPORT_HEIGHT, on either side of the merge
\* conflict.
C1_OutputHasPassportSize ==
    \A w \in ph_written : w.size = <<PASSPORT_WIDTH, PASSPORT_HEIGHT>>

\* file k of the listing is an image that cannot be read or shows no face
Faceless(k) ==
    /\ IsImageName(ph_files[k].name)
    /\ ~ph_files[k].img.readable \/ ph_files[k].img.face = NoFace

\* C9: for an image that cannot be read or in which no face is detected,
\* process_image returns False and writes no output file; the image is counted
\* as a failure (error_count is the number of False returns); and the loop goes
\* on: when main ends, every entry of the folder has been handled.
C9_NoFaceIsSkippedAndCounted ==
    /\ \A k \in 1..Len(ph_ret) :
          Faceless(k) =>
             /\ ph_ret[k] = "False"
             /\ \A w \in ph_written : w.name # ph_files[k].name
    /\ error_count = Cardinality({k \in 1..Len(ph_ret) : ph_ret[k] = "False"})
    /\ ph_pc = "done" => Len(ph_ret) = Len(ph_files)

\* C9 witness: a finished run over three images: the first has no face, the
\* second cannot be read, and the third, handled after both, was processed.
C9_Witness ==
    /\ ph_pc = "done"
    /\ Len(ph_files) = 3
    /\ \A k \in 1..3 : IsImageName(ph_files[k].name)
    /\ ph_files[1].img.readable /\ ph_files[1].img.face = NoFace
    /\ ~ph_files[2].img.readable
    /\ ph_ret = <<"False", "False", "True">>
    /\ error_count = 2
    /\ success_count = 1
    /\ Cardinality(ph_written) = 1

----------------------------------------------------------------------------
(* Properties of student_ppt.py *)

\* rows of the table the slide loop has handled so far
HandledRows == IF ppt_pc \in {"loop", "done"} /\ ppt_i > 0 THEN 1..(ppt_i - 1) ELSE {}

\* handled rows that have a Name
NamedRows == {k \in HandledRows : ~isna(ppt_df.rows[k])}

\* C5: a row whose Name is missing gets no slide and one skip message; every
\* row with a Name gets exactly one slide, duplicates of a Name included; the
\* slides are in CSV row order; and the loop handles every row.
C5_OneSlidePerNamedRow ==
    /\ Len(ppt_slides) = Cardinality(NamedRows)
    /\ \A k \in NamedRows : Count(ppt_slides, k) = 1
    /\ \A j \in 1..(Len(ppt_slides) - 1) : ppt_slides[j] < ppt_slides[j + 1]
    /\ Count(log, "Skipping student with missing name")
          = Cardinality(HandledRows \ NamedRows)
    /\ (ppt_pc = "done" /\ ppt_i > 0) => ppt_i = Len(ppt_df.rows) + 1

\* C5 witness: a finished run on three rows, the second without a Name and the
\* third with the Name of the first: slides for rows 1 and 3, one skip message.
C5_Witness ==
    /\ ppt_pc = "done"
    /\ Len(ppt_df.rows) = 3
    /\ ~isna(ppt_df.rows[1])
    /\ isna(ppt_df.rows[2])
    /\ ppt_df.rows[3] = ppt_df.rows[1]
    /\ ppt_slides = <<1, 3>>
    /\ Count(log, "Skipping student with missing name") = 1

\* C6: at the end of the slide loop the number of successfully created slides
\* that is reported (success_count) equals the number of slides in the
\* presentation: skipped rows are not counted, and a row whose creation raised
\* leaves no slide.
C6_ReportedEqualsSlides ==
    (ppt_pc \in {"loop", "done"} /\ ppt_i > Len(ppt_df.rows))
        => ppt_success_count = Len(ppt_slides)

\* C10: no presentation file is written by two runs: any two runs of
\* create_presentation save to different paths.
C10_RunsNeverShareAPath ==
    \A path \in DOMAIN fs_pptx : Len(fs_pptx[path]) <= 1

----------------------------------------------------------------------------
(* Properties of all scripts *)

\* the process has ended
Ended == exit_code # -1

\* C7: in every script that loops over rows or files, an exception raised
\* while handling one item is caught around that item and the loop goes on:
\* once the loop has started, the script ends only after every item has been
\* handled and the output has been written, never by a traceback.
C7_EveryItemGuarded ==
    Ended =>
        /\ (script = "generate_certificates" /\ ce_i > 0)
              => ce_i = Len(ce_env.rows) + 1
        /\ script = "process_photos" => ph_i = Len(ph_files) + 1
        /\ (script = "student_ppt" /\ ppt_i > 0)
              => ppt_i = Len(ppt_df.rows) + 1
        /\ (script = "generate_invite_list" /\ inv_i > 0)
              => /\ inv_i = Len(inv_df) + 1
                 /\ inv_written
                 /\ exit_via # "traceback"

\* the messages printed for a missing required input file or argument
FatalMessages ==
    {"CSV file not found", "Failed to read local CSV file",
     "Sheet ID and gid are required", "Failed to download the sheet as CSV",
     "Photos folder not found", "Error processing student data: No such file"}

\* a fatal condition was met in this run
Fatal == \E j \in 1..Len(log) : log[j] \in FatalMessages

\* C8: in generate_parentlist_html, student_ppt and generate_certificates a
\* fatal condition (missing required input file or argument) ends the process
\* with a nonzero status through sys.exit, and nothing else does.
C8_FatalExitsNonzero ==
    (Ended /\ script \in {"generate_parentlist_html", "student_ppt",
                          "generate_certificates"})
        => (Fatal <=> (exit_code # 0 /\ exit_via = "sys.exit"))

----------------------------------------------------------------------------
(* Properties of the PDF export of student_ppt.py *)

\* position of a converter in the order comtypes, win32com, soffice
ConverterIndex(c) == CHOOSE k \in 1..3 : Converters[k] = c

\* converter run j of this call left the PDF file on disk
LeftPdf(j) == pdf_tried[j].outcome \in {"writes", "writes_raises"}

\* C11: save_ppt_as_pdf runs the converters in the order comtypes, win32com,
\* soffice; a later converter is run only if every earlier one failed to
\* leave the PDF on disk; and it returns None only if no converter it ran
\* left the PDF on disk.
C11_ConvertersInOrderUntilFile ==
    pdf_ret # "not called" =>
        /\ \A i, j \in 1..Len(pdf_tried) :
              i < j => /\ ConverterIndex(pdf_tried[i].converter)
                            < ConverterIndex(pdf_tried[j].converter)
                       /\ ~LeftPdf(i)
        /\ pdf_ret = "None" => \A j \in 1..Len(pdf_tried) : ~LeftPdf(j)

\* the runs that saved a presentation to `path`
Savers(path) == {fs_pptx[path][j] : j \in 1..Len(fs_pptx[path])}

\* this run saved a presentation into directory dir ("cwd" or "tmp")
SavedIn(dir) ==
    \E path \in DOMAIN fs_pptx : path[1] = dir /\ ppt_run \in Savers(path)

\* C27: when create_presentation has returned, it returned False only if the
\* student data could not be read or if neither the save to the timestamped
\* path nor the save to the temp directory succeeded; a failed first save
\* followed by a successful temp save gives True; and when the data could not
\* be read the run has built no slide and saved no file.
C27_FalseOnlyWhenUnreadOrUnsaved ==
    (script = "student_ppt" /\ ppt_pc = "done" /\ ppt_result # "none") =>
        /\ ppt_result = "False" =>
              \/ Count(log, "Error reading CSV") = 1
              \/ /\ ~SavedIn("cwd") /\ ~SavedIn("tmp")
                 /\ Count(log, "Failed to save presentation to temp path") = 1
        /\ (~SavedIn("cwd") /\ SavedIn("tmp")) => ppt_result = "True"
        /\ Count(log, "Error reading CSV") = 1 =>
              /\ ppt_result = "False"
              /\ ppt_slides = <<>>
              /\ ~SavedIn("cwd") /\ ~SavedIn("tmp")
              /\ pdf_ret = "not called"

\* C27 witness: the first save failed, the save to the temp directory
\* succeeded, and create_presentation returned True.
C27_Witness ==
    /\ script = "student_ppt"
    /\ ppt_pc = "done"
    /\ ppt_result = "True"
    /\ ~SavedIn("cwd")
    /\ SavedIn("tmp")
    /\ Count(log, "Error saving presentation") = 1

\* C12: once the .pptx has been saved and the PDF step entered, whatever the
\* converters and the rename do, create_presentation returns True, the run's
\* .pptx is the last one written to its path in the working directory, no
\* exception reaches the outer handler (no "Error saving presentation") and
\* the run saves nothing to the temp directory.
C12_PdfFailureKeepsOutcome ==
    (ppt_pc = "done" /\ pdf_ret # "not called") =>
        /\ ppt_result = "True"
        /\ exit_via = "return"
        /\ Count(log, "Error saving presentation") = 0
        /\ \E path \in DOMAIN fs_pptx :
              /\ path[1] = "cwd"
              /\ fs_pptx[path][Len(fs_pptx[path])] = ppt_run
        /\ \A path \in DOMAIN fs_pptx : path[1] = "tmp" => ppt_run \notin Savers(path)

\* C12 witness: a finished run in which all three converters were run, the
\* first raised, the second left a PDF and raised, the third raised, and
\* save_ppt_as_pdf returned None.
C12_Witness ==
    /\ ppt_pc = "done"
    /\ pdf_ret = "None"
    /\ Len(pdf_tried) = 3
    /\ pdf_tried[1].outcome = "raises"
    /\ pdf_tried[2].outcome = "writes_raises"
    /\ pdf_tried[3].outcome = "raises"
    /\ ppt_result = "True"

----------------------------------------------------------------------------
(* Properties of the HTTP requests *)

\* the GET requests issued for sheet k
GetsFor(k) == {j \in 1..Len(ds_gets) : ds_gets[j].sheet = k}

\* the GET requests that failed: the call raised or the status was an error
FailedGets == {j \in 1..Len(ds_gets) : ds_gets[j].outcome \in {"get_raises", "error_status"}}

\* main of generate_parentlist_html takes the download branch (line 270)
FetchBranch ==
    /\ script = "generate_parentlist_html"
    /\ ~truthy(pl_args.csv_file)
    /\ truthy(sheet_id(pl_args))
    /\ truthy(gid(pl_args))

\* C13: no HTTP request is retried: download_sheets issues at most one GET
\* per configured sheet, in sheet order, and reports every failed GET once;
\* generate_parentlist_html issues exactly one GET when it fetches the sheet,
\* none otherwise, and a failed fetch is reported and ends the run.
C13_NoRequestIsRetried ==
    /\ \A k \in 1..NSheets : Cardinality(GetsFor(k)) <= 1
    /\ \A j \in 1..Len(ds_gets) : ds_gets[j].sheet = j
    /\ script = "download_sheets" =>
          /\ Cardinality(FailedGets) <= Count(log, "Failed to download")
          /\ ds_pc # "sheets" => Len(ds_gets) = NSheets
    /\ script = "generate_parentlist_html" =>
          /\ Len(pl_requests) = IF FetchBranch /\ pl_pc # "main" THEN 1 ELSE 0
          /\ Count(log, "Failed to download the sheet as CSV") > 0
                => Len(pl_requests) = 1 /\ pl_pc = "exit"

\* C13 witness: a finished run of download_sheets in which the first GET
\* raised, the second got an error status and the third succeeded: three
\* requests, two failure reports.
C13_Witness ==
    /\ ds_pc = "done"
    /\ Len(ds_gets) = 3
    /\ ds_gets[1].outcome = "get_raises"
    /\ ds_gets[2].outcome = "error_status"
    /\ ds_gets[3].outcome = "ok"
    /\ Count(log, "Failed to download") = 2
    /\ sheets_success = 1

----------------------------------------------------------------------------
(* Properties of generate_searchable_html.py *)

\* C14: for every CSV that can be read, generate_html writes a page whose
\* table has one header cell per CSV column plus a leading 'No', one body row
\* per data row in the CSV's order, the 'No' cells reading 1..N, and every
\* cell of a uniquely named column holding the text of the CSV cell.
C14_OneRowPerCsvRow ==
    (script = "generate_searchable_html" /\ Ended /\ sh_in.exists) =>
        LET columns == strip_columns(sh_in.columns)
        IN  /\ sh_pc = "done"
            /\ sh_html.head = <<t_No>> \o columns
            /\ Len(sh_html.rows) = Len(sh_in.rows)
            /\ \A i \in 1..Len(sh_html.rows) :
                  /\ Len(sh_html.rows[i]) = Len(columns) + 1
                  /\ sh_html.rows[i][1] = int_text(i)
                  /\ \A j \in 1..Len(columns) :
                        Count(columns, columns[j]) = 1
                           => sh_html.rows[i][j + 1] = astype_str(sh_in.rows[i][j])

\* row k of the page's table has a cell that contains text f, ignoring case
RowContains(k, f) ==
    \E j \in 1..Len(sh_html.rows[k]) : includes(lower(sh_html.rows[k][j]), lower(f))

\* C19: after searchTable has run on an input event, with f the trimmed
\* value of the search box: a row is visible if and only if f is empty or one
\* of its cells contains f ignoring case, and the 'No matching results' notice
\* is shown if and only if f is not empty and no row contains it.
C19_VisibleIffMatches ==
    (script = "generate_searchable_html" /\ dom_n > 0) =>
        LET f == strip(dom_filter)
        IN  /\ \A k \in 1..Len(sh_html.rows) :
                  dom_display[k] <=> (f = <<>> \/ RowContains(k, f))
            /\ dom_notice <=> (f # <<>> /\ \A k \in 1..Len(sh_html.rows) : ~RowContains(k, f))

\* C25: in the written page, after any searchTable calls, the text of every
\* cell of the table body is the text the cell was written with: a search
\* changes only the <mark> highlighting.
C25_CellTextUnchanged ==
    (script = "generate_searchable_html" /\ sh_pc = "done") =>
        /\ dom_cells = page_cells(sh_html.rows)

----------------------------------------------------------------------------
(* Properties of generate_invite_list.py *)

\* C15: for every inviteList.csv that has the four columns, the run writes a
\* table with one row per CSV row, ascending by Registration ID, numbered
\* 1..N, and row i shows the name, people count and Registration ID of the
\* i-th CSV row in that order, its WhatsApp and SMS links carrying that row's
\* phone and the same encoded message built from those four fields.
C15_OneRowPerInviteSorted ==
    (script = "generate_invite_list" /\ Ended /\ inv_env.csv_exists
        /\ inv_env.layout \in {"expected", "reordered"}) =>
        /\ inv_written
        /\ Len(inv_html) = Len(inv_env.rows)
        /\ \A i \in 1..(Len(inv_df) - 1) : inv_df[i].reg_id <= inv_df[i + 1].reg_id
        /\ \A i \in 1..Len(inv_html) :
              LET h == inv_html[i]
                  r == inv_df[i]
                  text == quote_plus(message(strip(r.name), strip(r.phone),
                                             int_text(r.reg_id), strip(r.people)))
              IN  /\ h.No = i
                  /\ h.name = strip(r.name)
                  /\ h.reg_id = int_text(r.reg_id)
                  /\ h.people = strip(r.people)
                  /\ h.whatsapp = [phone |-> strip(r.phone), text |-> text]
                  /\ h.sms = [phone |-> strip(r.phone), body |-> text]

----------------------------------------------------------------------------
(* Properties of the column matching of normalize_and_sort *)

\* header h names candidate c: equal ignoring case and surrounding whitespace
Names(h, c) == lower(strip(h)) = lower(c)

\* the column a role is read from: of the candidates that some header names,
\* the earliest in the list, and the last header that names it; 0 if none
RoleColumn(columns, candidates) ==
    LET named == {k \in 1..Len(candidates) :
                     \E j \in 1..Len(columns) : Names(columns[j], candidates[k])}
    IN  IF named = {} THEN 0
        ELSE LET first == CHOOSE k \in named : \A m \in named : k <= m
                 cols == {j \in 1..Len(columns) : Names(columns[j], candidates[first])}
             IN  CHOOSE j \in cols : \A m \in cols : m <= j

\* the cell of role column j in input row `row`: '' when the role has no column
RoleCell(row, j) == IF j = 0 THEN Str(<<>>) ELSE row[j]

\* C16: whatever the header, the result has the columns No, Parent Name,
\* Student Name, Submitted On; each of its rows holds the parent, student and
\* time cells of one input row, each read from the column of the earliest
\* candidate named by a header (case and surrounding whitespace ignored) or
\* '' when no header names a candidate; and no row is lost unless both name
\* roles are without a column.
C16_ColumnsFoundByName ==
    PL_Normalized =>
        LET pcol == RoleColumn(pl_in.columns, parent_candidates)
            scol == RoleColumn(pl_in.columns, student_candidates)
            tcol == RoleColumn(pl_in.columns, time_candidates)
        IN  /\ pl_df.columns = <<"No", "Parent Name", "Student Name", "Submitted On">>
            /\ Len(pl_df.rows) = IF pcol = 0 /\ scol = 0 THEN 0 ELSE Len(pl_in.rows)
            /\ \A i \in 1..Len(pl_df.rows) :
                  \E k \in 1..Len(pl_in.rows) :
                      /\ pl_df.rows[i].p = RoleCell(pl_in.rows[k], pcol)
                      /\ pl_df.rows[i].s = RoleCell(pl_in.rows[k], scol)
                      /\ pl_df.rows[i].t = RoleCell(pl_in.rows[k], tcol)

\* C16 witness: the header " PARENT ", " parent name ", Phone with one row:
\* the parent is read from the second column (the earlier candidate), the
\* student and the time are filled with ''.
C16_Witness ==
    /\ PL_Normalized
    /\ pl_in.columns = <<h_PARENT_sp, h_parent_name_sp, h_Phone>>
    /\ Len(pl_df.rows) = 1
    /\ pl_df.rows[1].p = MarkedCell(1, 2)
    /\ pl_df.rows[1].s = Str(<<>>)
    /\ pl_df.rows[1].t = Str(<<>>)

----------------------------------------------------------------------------
(* Properties of the scripts with fixed output paths *)

\* C17: when generate_invite_list, generate_certificates or process_photos
\* has ended a later run on unchanged inputs, the files that run wrote are
\* exactly the files the first run wrote (same paths, same content of the
\* invite page, so the folder holds the same set of files), and process_photos
\* handled as many files as in the first run: none of its own outputs in
\* Photos/Processed was taken as an input.
C17_SecondRunSameOutputs ==
    (run >= 2 /\ Ended) =>
        /\ script = "process_photos" =>
               /\ ph_written = first_run.files
               /\ success_count + error_count = first_run.handled
        /\ script = "generate_certificates" => ce_files = first_run.files
        /\ script = "generate_invite_list" =>
               /\ (IF inv_written THEN {output_html} ELSE {}) = first_run.files
               /\ inv_html = first_run.content

\* C17 witness: a second run of process_photos has ended; the first run had
\* written at least one image, and the folder lists "Processed" next to it.
C17_Witness ==
    /\ script = "process_photos"
    /\ run = 2
    /\ Ended
    /\ first_run.files # {}
    /\ ph_written = first_run.files
    /\ \E k \in 1..Len(ph_files) : ph_files[k].name = n_Processed

\* C18: in the image add_stationery_border returns, every pixel of the region
\* the photo was pasted to (offset by the 12-pixel border) is the pixel of the
\* photo, and a pixel painted black by a border rectangle lies outside that
\* region.
C18_PhotoPastedUnchanged ==
    bd_pc = "done" =>
        /\ in_pasted(bd_in.size, bd_in.x, bd_in.y) =>
               bd_out = PhotoPixel(bd_in.x - 12, bd_in.y - 12)
        /\ bd_out = Black => ~in_pasted(bd_in.size, bd_in.x, bd_in.y)

\* the name ends, whatever the case of its letters, in one of the extensions
EndsInImageExtension(name) ==
    \E e \in image_extensions :
        /\ Len(e) <= Len(name)
        /\ \A i \in 1..Len(e) :
              lower(<<name[Len(name) - Len(e) + i]>>) = <<e[i]>>

\* entries of the listing whose name ends in an image extension
ImageEntries == {k \in 1..Len(ph_files) : EndsInImageExtension(ph_files[k].name)}

\* C20: when process_photos.main has ended, every entry of the listing has
\* been visited once; process_image was called for exactly the entries whose
\* name ends in .png, .jpg, .jpeg or .webp in any case; success_count +
\* error_count is the number of those entries; success_count is the number of
\* images written, and the images written are those of the entries that
\* returned True, each under the entry's own file name.
C20_EachImageFileHandledOnce ==
    (script = "process_photos" /\ ph_pc = "done") =>
        /\ Len(ph_ret) = Len(ph_files)
        /\ \A k \in 1..Len(ph_files) : ph_ret[k] # "skipped" <=> k \in ImageEntries
        /\ success_count + error_count = Cardinality(ImageEntries)
        /\ success_count = Cardinality(ph_written)
        /\ {w.name : w \in ph_written}
              = {ph_files[k].name : k \in {j \in 1..Len(ph_files) : ph_ret[j] = "True"}}

\* C20 witness: the folder holds b.JPG, processed and written under that
\* name, notes.txt, not handled, and an image file that failed.
C20_Witness ==
    /\ script = "process_photos"
    /\ ph_pc = "done"
    /\ \E k, j \in 1..Len(ph_files) :
          /\ ph_files[k].name = n_b_JPG
          /\ ph_ret[k] = "True"
          /\ ph_files[j].name = n_notes_txt
          /\ ph_ret[j] = "skipped"
    /\ \E w \in ph_written : w.name = n_b_JPG
    /\ success_count = 1
    /\ error_count = 1

----------------------------------------------------------------------------
(* Properties of the command line of generate_parentlist_html.py *)

C26_NoFileWrittenBeforeSysExit ==
    (script = "generate_parentlist_html" /\ exit_via = "sys.exit") =>
        pl_files = {}

\* C26 witness: the run has sent its request, the download failed, and main
\* has left through sys.exit(2).
C26_Witness ==
    /\ script = "generate_parentlist_html"
    /\ exit_via = "sys.exit"
    /\ exit_code = 2
    /\ Len(pl_requests) = 1

----------------------------------------------------------------------------
(* Properties of generate_certificates.py *)

\* C21: when generate_certificates.main has ended and no certificate creation
\* raised, Generated_Certificates holds one certificate per row of the student
\* CSV, named after the row's Name: as many files as rows.
C21_OneCertificatePerRow ==
    (script = "generate_certificates" /\ ce_pc = "done"
        /\ Count(log, "Error creating certificate") = 0) =>
        /\ Cardinality(ce_files) = Len(ce_env.rows)
        /\ \A i \in 1..Len(ce_env.rows) : ce_env.rows[i].s \in ce_files

----------------------------------------------------------------------------
(* Properties of the scaling and paste steps of process_image *)

\* C23: for a face box (x, y, w, h) with h > 0, process_image scales by
\* 318/h: the face height becomes int(0.6 * 531) = 318, the scaled face
\* centre is int((x + w//2) * 318/h), int((y + h//2) * 318/h) (the whole part
\* of the quotient, or one less where the float product falls short), and the
\* paste offset puts that pixel on the canvas centre (206, 265).
C23_FaceCentreOnCanvasCentre ==
    pa_pc = "placed" =>
        LET h == pa_in.face[4]
            cx == pa_in.face[1] + pa_in.face[3] \div 2
            cy == pa_in.face[2] + pa_in.face[4] \div 2
            f == pa_out.face_xy
        IN  /\ h > 0
            /\ pa_out.face_height = 318
            /\ f[1] * h <= cx * 318 /\ cx * 318 < (f[1] + 2) * h
            /\ f[2] * h <= cy * 318 /\ cy * 318 < (f[2] + 2) * h
            /\ pa_out.paste[1] + f[1] = 206
            /\ pa_out.paste[2] + f[2] = 265

\* C23 witness: the face box (39, 40, 100, 100) of a 640 x 480 image: the
\* centre (89, 90) scales to (283, 286) and the image is pasted at (-77, -21).
C23_Witness ==
    /\ pa_pc = "placed"
    /\ pa_in.face = <<39, 40, 100, 100>>
    /\ pa_in.size = <<640, 480>>
    /\ pa_out.face_xy = <<283, 286>>
    /\ pa_out.paste = <<-77, -21>>

\* C24: whatever the paste offset, the image rows and columns the paste loops
\* read lie in the resized image and the canvas rows and columns they write
\* lie in the 531 x 413 canvas; a canvas pixel the shifted image covers holds
\* the image pixel at (canvas position minus offset), and every other canvas
\* pixel is white.
C24_PasteStaysInBounds ==
    pa_pc = "pasted" =>
        LET px == pa_in.paste[1]
            py == pa_in.paste[2]
            covered == /\ 0 <= pa_in.x - px /\ pa_in.x - px < pa_in.new_size[1]
                       /\ 0 <= pa_in.y - py /\ pa_in.y - py < pa_in.new_size[2]
        IN  /\ pa_out.rows[1] < pa_out.rows[2] =>
                  /\ 0 <= pa_out.rows[1] /\ pa_out.rows[2] <= pa_in.new_size[2]
                  /\ 0 <= py + pa_out.rows[1] /\ py + pa_out.rows[2] <= 531
            /\ pa_out.cols[1] < pa_out.cols[2] =>
                  /\ 0 <= pa_out.cols[1] /\ pa_out.cols[2] <= pa_in.new_size[1]
                  /\ 0 <= px + pa_out.cols[1] /\ px + pa_out.cols[2] <= 413
            /\ pa_out.pixel = IF covered THEN PhotoPixel(pa_in.x - px, pa_in.y - py)
                              ELSE White

\* C24 witness: a 300 x 200 image pasted at (150, 200): canvas pixel
\* (206, 265) holds image pixel (56, 65), and the loops stop at the right
\* edge of the canvas.
C24_Witness ==
    /\ pa_pc = "pasted"
    /\ pa_in.new_size = <<300, 200>>
    /\ pa_in.paste = <<150, 200>>
    /\ pa_in.x = 206 /\ pa_in.y = 265
    /\ pa_out.pixel = PhotoPixel(56, 65)
    /\ pa_out.cols = <<0, 263>>
    /\ pa_out.rows = <<0, 200>>

----------------------------------------------------------------------------
(* Properties of read_student_data *)

\* the encodings read_student_data passes to pd.read_csv for some file
EncodingsReached ==
    { encodings[k] : k \in { Len(read_student_data(f).tried) : f \in StudentFiles } }

\* the call has returned after trying the encodings in the order of the list,
\* moving on only after a UnicodeDecodeError, and has returned the table of
\* the first encoding that decodes, or None after another error or for a
\* header without a Name column
ReadInOrder ==
    (script = "read_student_data" /\ rd_pc = "returned") =>
        LET n == Len(rd_out.tried)
            last == decode(rd_in.bytes, encodings[n])
        IN  /\ n \in 1..Len(encodings)
            /\ rd_out.tried = SubSeq(encodings, 1, n)
            /\ \A k \in 1..(n - 1) :
                  rd_in.error # "open" /\ ~decode(rd_in.bytes, encodings[k]).ok
            /\ rd_out.kind = "df" =>
                  /\ last.ok /\ rd_in.error = "none"
                  /\ rd_out.encoding = encodings[n]
                  /\ rd_out.text = last.text
                  /\ Count(rd_out.columns, "Name") > 0
                  /\ Count(rd_out.columns, "Student Name") = 0
                  /\ Len(rd_out.columns) = Len(rd_in.columns)
            /\ rd_out.kind = "None" =>
                  \/ rd_in.error = "open" /\ n = 1
                  \/ last.ok /\ rd_in.error = "parse"
                  \/ /\ last.ok
                     /\ Count(rd_in.columns, "Name") = 0
                     /\ Count(rd_in.columns, "Student Name") = 0
                  \/ n = Len(encodings) /\ ~last.ok

\* C28: read_student_data tries utf-8, latin-1 and cp1252 in this order, moves
\* on only after a UnicodeDecodeError, returns the table of the first encoding
\* that decodes and None after any other error or without a Name column, and
\* each of the three encodings is tried for some file.
C28_InOrderAndEachReached ==
    /\ ReadInOrder
    /\ \A k \in 1..Len(encodings) : encodings[k] \in EncodingsReached

----------------------------------------------------------------------------
(* Properties of download_sheets.main *)

\* the calls main has to make: every sheet, then every folder, in the order of
\* SHEETS and FOLDERS
ConfiguredCalls ==
    [j \in 1..(NSheets + NFolders) |->
        IF j <= NSheets THEN [kind |-> "sheet", k |-> j]
        ELSE [kind |-> "folder", k |-> j - NSheets]]

\* the calls of the given kind that returned True
TrueCalls(kind) ==
    {j \in 1..Len(ds_calls) : ds_calls[j].kind = kind /\ ds_calls[j].ret}

\* C29: the calls main has made are a prefix of the configured calls (every
\* sheet, then every folder, each once, in order, whatever the earlier calls
\* returned) and all of them once the summary is printed; each sheet call
\* issued one GET; the two counts are the numbers of calls that returned True;
\* download_sheet returned True only when the GET succeeded and the saved body
\* parsed as CSV; and a failed request did not write the output file.
C29_EveryDownloadOnceCountsTrue ==
    script = "download_sheets" =>
        /\ Len(ds_calls) <= NSheets + NFolders
        /\ \A j \in 1..Len(ds_calls) :
              /\ ds_calls[j].kind = ConfiguredCalls[j].kind
              /\ ds_calls[j].k = ConfiguredCalls[j].k
        /\ ds_pc \in {"summary", "done"} => Len(ds_calls) = NSheets + NFolders
        /\ Len(ds_gets)
              = Cardinality({j \in 1..Len(ds_calls) : ds_calls[j].kind = "sheet"})
        /\ \A j \in 1..Len(ds_gets) : ds_gets[j].sheet = j
        /\ sheets_success = Cardinality(TrueCalls("sheet"))
        /\ folders_success = Cardinality(TrueCalls("folder"))
        /\ sheets_success \in 0..NSheets /\ folders_success \in 0..NFolders
        /\ \A j \in 1..Len(ds_calls) :
              ds_calls[j].kind = "sheet" =>
                 /\ ds_calls[j].ret => ds_calls[j].outcome = "ok"
                 /\ ds_calls[j].outcome \in {"get_raises", "error_status"}
                       => ds_calls[j].k \notin ds_files

\* C29 witness: the summary has been printed after the first sheet's request
\* failed, the second sheet's body was saved but was no CSV, the third sheet
\* was downloaded, and one of the two folders gave files.
C29_Witness ==
    /\ script = "download_sheets"
    /\ ds_pc = "done"
    /\ ds_calls[1].outcome = "error_status"
    /\ ds_calls[2].outcome = "not_csv"
    /\ ds_calls[3].outcome = "ok"
    /\ ds_files = {2, 3}
    /\ sheets_success = 1
    /\ folders_success = 1

====
